---- MODULE Spec2Model ----
(***************************************************************************)
(* TrendRadar MCP server: the TTL cache (services/cache_service.py), the   *)
(* per-day title index built from snapshot files                           *)
(* (services/parser_service.py), the data service built on both            *)
(* (services/data_service.py) and the range scans of the search and        *)
(* analytics tools (tools/search_tools.py, tools/analytics.py).            *)
(*                                                                         *)
(* Several specifications share the variables below:                       *)
(*   SpecCache      the CacheService operations against a clock            *)
(*   SpecSingleton  concurrent get_cache() calls, one step per bytecode    *)
(*                  boundary at which the interpreter may switch threads   *)
(*   SpecMerge      read_all_titles_for_date over every small day folder   *)
(***************************************************************************)
EXTENDS Integers, Sequences, FiniteSets, TLC

VARIABLES
    now,            \* time.time(), in clock units
    cache,          \* CacheService._cache      : key -> value
    timestamps,     \* CacheService._timestamps : key -> time of the set
    ret,            \* what the last completed operation returned
    evicted,        \* history: key -> storedAt of the entry a get found expired, until the next set
    global_cache,   \* module global _global_cache: NoInstance or the id of a CacheService
    pc,             \* per thread: position inside get_cache()
    ref,            \* per thread: the instance its last get_cache() returned
    stores,         \* per CacheService instance: the keys set through it
    fs,             \* output/<date>/txt: day -> [exists, files], files in ascending name order
    lock,           \* CacheService._lock: NoThread or the thread inside a `with self._lock`
    frames,         \* per thread: its call of read_all_titles_for_date (position and locals)
    origin          \* history: cache key -> what the computation that stored it produced, and for which date and filter

vars == <<now, cache, timestamps, ret, evicted, global_cache, pc, ref, stores, fs, lock, frames, origin>>

cacheVars == <<now, cache, timestamps, ret, evicted>>
callVars == <<lock, frames>>
instanceVars == <<global_cache, pc, ref, stores>>
singletonVars == <<instanceVars, callVars>>
corpusVars == <<fs, origin>>

None == "None"

\* `_global_cache = None`: no CacheService built yet (instances are numbered from 1)
NoInstance == 0

(***************************************************************************)
(* Bounds                                                                  *)
(***************************************************************************)
MaxNow == 3          \* the clock of SpecCache runs 0..MaxNow
MaxWindow == 2       \* freshness windows offered to get / cleanup_expired: 1..MaxWindow
NumThreads == 3      \* threads calling get_cache()

Keys == {"k1", "k2"}
Values == {"v1", "v2"}
Windows == 1..MaxWindow
Threads == 1..NumThreads

EmptyDict == [k \in {} |-> None]

DictDel(d, key) == [k \in DOMAIN d \ {key} |-> d[k]]

DictPut(d, key, v) == [k \in DOMAIN d \cup {key} |-> IF k = key THEN v ELSE d[k]]

(***************************************************************************)
(* CacheService                                                            *)
(***************************************************************************)

\* time.time() advances between operations
Tick ==
    /\ now < MaxNow
    /\ now' = now + 1
    /\ UNCHANGED <<cache, timestamps, ret, evicted>>
    /\ UNCHANGED <<singletonVars, corpusVars>>

\* the entry of key is present and younger than ttl (cache_service.py:33-35)
Fresh(c, ts, t, key, ttl) == key \in DOMAIN c /\ t - ts[key] < ttl

\* _cache after get(key, ttl): an entry found expired is deleted
CacheAfterGet(c, ts, t, key, ttl) ==
    IF key \in DOMAIN c /\ ~(t - ts[key] < ttl) THEN DictDel(c, key) ELSE c

\* a get that reports the expiry but leaves the entry in place
CacheGetKeepsExpired(key, ttl) ==
    /\ ret' = [op |-> "get", key |-> key, ttl |-> ttl, at |-> now,
               value |-> IF Fresh(cache, timestamps, now, key, ttl) THEN cache[key] ELSE None]
    /\ evicted' = IF key \in DOMAIN cache /\ ~Fresh(cache, timestamps, now, key, ttl)
                  THEN DictPut(evicted, key, timestamps[key]) ELSE evicted
    /\ UNCHANGED <<now, cache, timestamps>>
    /\ UNCHANGED <<singletonVars, corpusVars>>

\* a get that compares the age with <= instead of <
CacheGetInclusive(key, ttl) ==
    /\ ret' = [op |-> "get", key |-> key, ttl |-> ttl, at |-> now,
               value |-> IF key \in DOMAIN cache /\ now - timestamps[key] <= ttl
                         THEN cache[key] ELSE None]
    /\ cache' = IF key \in DOMAIN cache /\ ~(now - timestamps[key] <= ttl)
                THEN DictDel(cache, key) ELSE cache
    /\ timestamps' = IF key \in DOMAIN cache /\ ~(now - timestamps[key] <= ttl)
                     THEN DictDel(timestamps, key) ELSE timestamps
    /\ evicted' = IF key \in DOMAIN cache /\ ~(now - timestamps[key] <= ttl)
                  THEN DictPut(evicted, key, timestamps[key]) ELSE evicted
    /\ UNCHANGED now
    /\ UNCHANGED <<singletonVars, corpusVars>>

\* CacheService.get(key, ttl)
CacheGet(key, ttl) ==
    /\ ret' = [op |-> "get", key |-> key, ttl |-> ttl, at |-> now,
               value |-> IF Fresh(cache, timestamps, now, key, ttl) THEN cache[key] ELSE None]
    /\ cache' = CacheAfterGet(cache, timestamps, now, key, ttl)
    /\ timestamps' = CacheAfterGet(timestamps, timestamps, now, key, ttl)
    /\ evicted' = IF key \in DOMAIN cache /\ ~Fresh(cache, timestamps, now, key, ttl)
                  THEN DictPut(evicted, key, timestamps[key]) ELSE evicted
    /\ UNCHANGED now
    /\ UNCHANGED <<singletonVars, corpusVars>>

\* CacheService.set(key, value)
CacheSet(key, value) ==
    /\ cache' = DictPut(cache, key, value)
    /\ timestamps' = DictPut(timestamps, key, now)
    /\ ret' = [op |-> "set", key |-> key, ttl |-> 0, at |-> now, value |-> None]
    /\ evicted' = DictDel(evicted, key)
    /\ UNCHANGED now
    /\ UNCHANGED <<singletonVars, corpusVars>>

\* CacheService.delete(key)
CacheDelete(key) ==
    /\ cache' = DictDel(cache, key)
    /\ timestamps' = DictDel(timestamps, key)
    /\ ret' = [op |-> "delete", key |-> key, ttl |-> 0, at |-> now,
               value |-> IF key \in DOMAIN cache THEN "True" ELSE "False"]
    /\ UNCHANGED <<now, evicted>>
    /\ UNCHANGED <<singletonVars, corpusVars>>

\* CacheService.clear()
CacheClear ==
    /\ cache' = EmptyDict
    /\ timestamps' = EmptyDict
    /\ ret' = [op |-> "clear", key |-> None, ttl |-> 0, at |-> now, value |-> None]
    /\ UNCHANGED <<now, evicted>>
    /\ UNCHANGED <<singletonVars, corpusVars>>

ExpiredKeys(ts, t, ttl) == {k \in DOMAIN ts : t - ts[k] >= ttl}

\* CacheService.cleanup_expired(ttl)
CacheCleanupExpired(ttl) ==
    /\ cache' = [k \in DOMAIN cache \ ExpiredKeys(timestamps, now, ttl) |-> cache[k]]
    /\ timestamps' = [k \in DOMAIN timestamps \ ExpiredKeys(timestamps, now, ttl) |-> timestamps[k]]
    /\ ret' = [op |-> "cleanup", key |-> None, ttl |-> ttl, at |-> now, value |-> None,
               removed |-> Cardinality(ExpiredKeys(timestamps, now, ttl))]
    /\ UNCHANGED <<now, evicted>>
    /\ UNCHANGED <<singletonVars, corpusVars>>

\* the lock is free
NoThread == 0

\* no thread is inside read_all_titles_for_date
IdleFrame == [pc |-> "idle"]

CallersIdle ==
    /\ lock = NoThread
    /\ frames = [t \in Threads |-> IdleFrame]

SingletonIdle ==
    /\ global_cache = NoInstance
    /\ pc = [t \in Threads |-> "idle"]
    /\ ref = [t \in Threads |-> NoInstance]
    /\ stores = [t \in Threads |-> {}]

\* no corpus on disk
CorpusIdle ==
    /\ fs = EmptyDict
    /\ origin = EmptyDict

InitCache ==
    /\ now = 0
    /\ cache = EmptyDict
    /\ timestamps = EmptyDict
    /\ ret = [op |-> "init", key |-> None, ttl |-> 0, at |-> 0, value |-> None]
    /\ evicted = EmptyDict
    /\ SingletonIdle
    /\ CallersIdle
    /\ CorpusIdle

NextCache ==
    \/ Tick
    \/ \E k \in Keys, w \in Windows : CacheGet(k, w)
    \/ \E k \in Keys, v \in Values : CacheSet(k, v)
    \/ \E k \in Keys : CacheDelete(k)
    \/ CacheClear
    \/ \E w \in Windows : CacheCleanupExpired(w)

SpecCache == InitCache /\ [][NextCache]_vars

(***************************************************************************)
(* get_cache(): the lazily created module-level instance.  The function    *)
(* takes no lock, so another thread may run between the test of the global *)
(* (a load), the construction and store, and the final load that is        *)
(* returned.  A CacheService is identified by the thread that built it.    *)
(***************************************************************************)

\* `if _global_cache is None:` (cache_service.py:134)
GetCacheTest(t) ==
    /\ pc[t] = "idle"
    /\ pc' = [pc EXCEPT ![t] = IF global_cache = NoInstance THEN "create" ELSE "return"]
    /\ UNCHANGED <<global_cache, ref, stores>>
    /\ UNCHANGED <<cacheVars, corpusVars, callVars>>

\* `_global_cache = CacheService()` (cache_service.py:135)
GetCacheCreate(t) ==
    /\ pc[t] = "create"
    /\ global_cache' = t
    /\ stores' = [stores EXCEPT ![t] = {}]
    /\ pc' = [pc EXCEPT ![t] = "return"]
    /\ UNCHANGED ref
    /\ UNCHANGED <<cacheVars, corpusVars, callVars>>

\* `return _global_cache` (cache_service.py:136)
GetCacheReturn(t) ==
    /\ pc[t] = "return"
    /\ ref' = [ref EXCEPT ![t] = global_cache]
    /\ pc' = [pc EXCEPT ![t] = "idle"]
    /\ UNCHANGED <<global_cache, stores>>
    /\ UNCHANGED <<cacheVars, corpusVars, callVars>>

\* a holder of a reference (ParserService.cache, DataService.cache) sets a key through it
SetThrough(t, key) ==
    /\ pc[t] = "idle"
    /\ ref[t] # NoInstance
    /\ stores' = [stores EXCEPT ![ref[t]] = @ \cup {key}]
    /\ UNCHANGED <<global_cache, pc, ref>>
    /\ UNCHANGED <<cacheVars, corpusVars, callVars>>

InitSingleton ==
    /\ now = 0
    /\ cache = EmptyDict
    /\ timestamps = EmptyDict
    /\ ret = [op |-> "init", key |-> None, ttl |-> 0, at |-> 0, value |-> None]
    /\ evicted = EmptyDict
    /\ SingletonIdle
    /\ CallersIdle
    /\ CorpusIdle

NextSingleton ==
    \/ \E t \in Threads : GetCacheTest(t)
    \/ \E t \in Threads : GetCacheCreate(t)
    \/ \E t \in Threads : GetCacheReturn(t)
    \/ \E t \in Threads, k \in Keys : SetThrough(t, k)

SpecSingleton == InitSingleton /\ [][NextSingleton]_vars

(***************************************************************************)
(* Corpus and ParserService                                                *)
(*                                                                         *)
(* Python dicts keep insertion order and the tools iterate them, so a dict *)
(* that is iterated is a sequence of [k, v] entries; a dict that is only   *)
(* looked up is a function.  A title is a sequence of characters.          *)
(***************************************************************************)

TimeUnit == 300            \* seconds per clock unit in the service specifications
SecondsPerDay == 86400
DayLen == SecondsPerDay \div TimeUnit

TTL_TODAY == 900           \* parser_service.py:190
TTL_HISTORY == 3600        \* parser_service.py:190

NoRank == -1               \* `rank = None`: the line has no "<digits>. " prefix
NoDate == -1               \* `date=None`

\* datetime.date(): the calendar day of a datetime
DateOf(dt) == dt \div DayLen

OHas(d, k) == \E i \in DOMAIN d : d[i].k = k

OIdx(d, k) == CHOOSE i \in DOMAIN d : d[i].k = k

OGet(d, k) == d[OIdx(d, k)].v

\* d[k] = v: a new key goes to the end, an existing key keeps its position
OPut(d, k, v) ==
    IF OHas(d, k) THEN [d EXCEPT ![OIdx(d, k)] = [k |-> k, v |-> v]]
    ELSE Append(d, [k |-> k, v |-> v])

\* the title lines of one section (parser_service.py:103-139)
RECURSIVE ParseLines(_, _)
ParseLines(lines, titles) ==
    IF lines = <<>> THEN titles
    ELSE LET line == Head(lines)
             info == [ranks |-> <<IF line.rank = NoRank THEN 1 ELSE line.rank>>,
                      url |-> line.url, mobileUrl |-> line.mobile]
         IN  ParseLines(Tail(lines), OPut(titles, line.title, info))

\* the sections of one file (parser_service.py:81-139); acc = [titles, names]
RECURSIVE ParseSections(_, _)
ParseSections(sections, acc) ==
    IF sections = <<>> THEN acc
    ELSE LET sec == Head(sections)
         IN  IF Len(sec.lines) = 0
             THEN ParseSections(Tail(sections), acc)
             ELSE ParseSections(Tail(sections),
                    [titles |-> OPut(acc.titles, sec.id, ParseLines(sec.lines, <<>>)),
                     names  |-> DictPut(acc.names, sec.id,
                                        IF sec.name = None THEN sec.id ELSE sec.name)])

\* ParserService.parse_txt_file: raises FileParseError for an unreadable file
parse_txt_file(file) ==
    IF ~file.ok THEN [raised |-> TRUE, titles |-> <<>>, names |-> EmptyDict]
    ELSE LET r == ParseSections(file.sections, [titles |-> <<>>, names |-> EmptyDict])
         IN  [raised |-> FALSE, titles |-> r.titles, names |-> r.names]

\* `platform_ids and platform_id not in platform_ids` (parser_service.py:229)
FilteredOut(platform_ids, platform_id) ==
    /\ platform_ids # <<>>
    /\ \A i \in DOMAIN platform_ids : platform_ids[i] # platform_id

\* the titles of one platform of one file merged into the day's titles of that
\* platform (parser_service.py:235-240)
RECURSIVE MergeTitles(_, _)
MergeTitles(dayTitles, fileTitles) ==
    IF fileTitles = <<>> THEN dayTitles
    ELSE LET e == Head(fileTitles)
         IN  MergeTitles(
               IF OHas(dayTitles, e.k)
               THEN OPut(dayTitles, e.k,
                         [OGet(dayTitles, e.k) EXCEPT !.ranks = @ \o e.v.ranks])
               ELSE OPut(dayTitles, e.k, e.v),
               Tail(fileTitles))

\* the platforms of one file merged into all_titles (parser_service.py:227-240)
RECURSIVE MergePlatforms(_, _, _)
MergePlatforms(all_titles, byId, platform_ids) ==
    IF byId = <<>> THEN all_titles
    ELSE LET e == Head(byId)
         IN  IF FilteredOut(platform_ids, e.k)
             THEN MergePlatforms(all_titles, Tail(byId), platform_ids)
             ELSE MergePlatforms(
                    OPut(all_titles, e.k,
                         MergeTitles(IF OHas(all_titles, e.k) THEN OGet(all_titles, e.k) ELSE <<>>,
                                     e.v)),
                    Tail(byId), platform_ids)

\* a merge that replaces the rank list of a repeated title
MergeFileOverwrite(acc, file, name, platform_ids) ==
    LET parsed == parse_txt_file(file)
        PutAll(dayTitles, fileTitles) ==
            LET RECURSIVE go(_, _)
                go(d, ft) == IF ft = <<>> THEN d
                             ELSE go(OPut(d, Head(ft).k, Head(ft).v), Tail(ft))
            IN  go(dayTitles, fileTitles)
        RECURSIVE plat(_, _)
        plat(all, byId) ==
            IF byId = <<>> THEN all
            ELSE IF FilteredOut(platform_ids, Head(byId).k) THEN plat(all, Tail(byId))
            ELSE plat(OPut(all, Head(byId).k,
                           PutAll(IF OHas(all, Head(byId).k) THEN OGet(all, Head(byId).k) ELSE <<>>,
                                  Head(byId).v)),
                      Tail(byId))
    IN  IF parsed.raised THEN acc
        ELSE [titles |-> plat(acc.titles, parsed.titles),
              names  |-> [k \in DOMAIN acc.names \cup DOMAIN parsed.names |->
                            IF k \in DOMAIN parsed.names THEN parsed.names[k] ELSE acc.names[k]],
              stamps |-> DictPut(acc.stamps, name, file.mtime)]

\* a merge that records the timestamp of a file before parsing it
MergeFileStampsFirst(acc, file, name, platform_ids) ==
    LET parsed == parse_txt_file(file)
    IN  IF parsed.raised THEN [acc EXCEPT !.stamps = DictPut(acc.stamps, name, file.mtime)]
        ELSE [titles |-> MergePlatforms(acc.titles, parsed.titles, platform_ids),
              names  |-> [k \in DOMAIN acc.names \cup DOMAIN parsed.names |->
                            IF k \in DOMAIN parsed.names THEN parsed.names[k] ELSE acc.names[k]],
              stamps |-> DictPut(acc.stamps, name, file.mtime)]

\* one iteration of `for txt_file in txt_files` (parser_service.py:219-248);
\* acc = [titles, names, stamps]; a file whose parse raises is skipped
MergeFile(acc, file, name, platform_ids) ==
    LET parsed == parse_txt_file(file)
    IN  IF parsed.raised THEN acc
        ELSE [titles |-> MergePlatforms(acc.titles, parsed.titles, platform_ids),
              names  |-> [k \in DOMAIN acc.names \cup DOMAIN parsed.names |->
                            IF k \in DOMAIN parsed.names THEN parsed.names[k] ELSE acc.names[k]],
              stamps |-> DictPut(acc.stamps, name, file.mtime)]

\* the loop over sorted(txt_dir.glob("*.txt")); the name of a file is its
\* position in the sorted listing
RECURSIVE MergeFiles(_, _, _, _)
MergeFiles(acc, files, i, platform_ids) ==
    IF i > Len(files) THEN acc
    ELSE MergeFiles(MergeFile(acc, files[i], i, platform_ids), files, i + 1, platform_ids)

\* ParserService.get_date_folder_name: strftime("%Y年%m月%d日") of the day
get_date_folder_name(day) == "D" \o ToString(day)

\* the ids the deployment knows, in the order sorted() gives them
PlatformOrder == <<"p1", "p2">>

\* ','.join(ids)
RECURSIVE Join(_)
Join(ids) ==
    IF ids = <<>> THEN ""
    ELSE IF Len(ids) = 1 THEN ids[1]
    ELSE ids[1] \o "," \o Join(Tail(ids))

\* sorted(platform_ids)
Sorted(platform_ids) ==
    SelectSeq(PlatformOrder, LAMBDA p : \E i \in DOMAIN platform_ids : platform_ids[i] = p)

\* parser_service.py:182-184
ReadAllKey(day, platform_ids) ==
    "read_all_titles:" \o get_date_folder_name(day) \o ":"
       \o (IF platform_ids # <<>> THEN Join(Sorted(platform_ids)) ELSE "all")

MissingFolder == [exists |-> FALSE, files |-> <<>>]

FolderOf(disk, day) == IF day \in DOMAIN disk THEN disk[day] ELSE MissingFolder

\* the cache store threaded through one operation: st = [cache, timestamps, origin]
StGet(st, t, key, ttl) ==
    [hit   |-> Fresh(st.cache, st.timestamps, t, key, ttl \div TimeUnit),
     value |-> IF Fresh(st.cache, st.timestamps, t, key, ttl \div TimeUnit)
               THEN st.cache[key] ELSE None,
     st    |-> [cache      |-> CacheAfterGet(st.cache, st.timestamps, t, key, ttl \div TimeUnit),
                timestamps |-> CacheAfterGet(st.timestamps, st.timestamps, t, key, ttl \div TimeUnit),
                origin     |-> st.origin]]

StSet(st, t, key, value, day, platform_ids) ==
    [cache      |-> DictPut(st.cache, key, value),
     timestamps |-> DictPut(st.timestamps, key, t),
     origin     |-> DictPut(st.origin, key, [value |-> value, day |-> day, platforms |-> platform_ids])]

EmptyIndex == [titles |-> <<>>, names |-> EmptyDict, stamps |-> EmptyDict]

\* ParserService.read_all_titles_for_date(date, platform_ids) at time t over the
\* files on disk: the result, the cache read it made and the store afterwards.
read_all_titles_for_date(st, disk, t, date, platform_ids) ==
    LET day      == IF date = NoDate THEN DateOf(t) ELSE DateOf(date)
        key      == ReadAllKey(day, platform_ids)
        is_today == date = NoDate \/ DateOf(date) = DateOf(t)
        ttl      == IF is_today THEN TTL_TODAY ELSE TTL_HISTORY
        g        == StGet(st, t, key, ttl)
        folder   == FolderOf(disk, day)
        merged   == MergeFiles(EmptyIndex, folder.files, 1, platform_ids)
        base     == [key |-> key, ttl |-> ttl, day |-> day, today |-> is_today]
    IN  IF g.hit
        THEN base @@ [raised |-> FALSE, hit |-> TRUE, value |-> g.value, st |-> g.st]
        ELSE IF ~folder.exists \/ folder.files = <<>> \/ merged.titles = <<>>
        THEN base @@ [raised |-> TRUE, hit |-> FALSE, value |-> EmptyIndex, st |-> g.st]
        ELSE base @@ [raised |-> FALSE, hit |-> FALSE, value |-> merged,
                      st |-> StSet(g.st, t, key, merged, day, platform_ids)]

Store == [cache |-> cache, timestamps |-> timestamps, origin |-> origin]

StoreBecomes(st) ==
    /\ cache' = st.cache
    /\ timestamps' = st.timestamps
    /\ origin' = st.origin

\* a caller invokes read_all_titles_for_date
ReadAllTitles(date, platform_ids) ==
    LET r == read_all_titles_for_date(Store, fs, now, date, platform_ids)
    IN  /\ StoreBecomes(r.st)
        /\ ret' = [op |-> "read_all", date |-> date, platforms |-> platform_ids,
                   day |-> r.day, key |-> r.key, ttl |-> r.ttl, today |-> r.today,
                   raised |-> r.raised, hit |-> r.hit, value |-> r.value, at |-> now]
        /\ UNCHANGED <<now, evicted, fs>>
        /\ UNCHANGED singletonVars

(***************************************************************************)
(* The snapshot files of the model                                         *)
(***************************************************************************)
TitleAb == <<"A", "b">>
TitleBb == <<"b", "b">>

Line(rank, title, url, mobile) == [rank |-> rank, title |-> title, url |-> url, mobile |-> mobile]

\* p1 | P1 with one title at rank 3
FileA == [ok |-> TRUE, sections |-> <<
            [id |-> "p1", name |-> "P1", lines |-> << Line(3, TitleAb, "u1", "m1") >>] >>]

\* the same title at rank 7, a title without a rank, a second platform without a display name
FileB == [ok |-> TRUE, sections |-> <<
            [id |-> "p1", name |-> "P1b", lines |-> << Line(7, TitleAb, "u1", ""),
                                                        Line(NoRank, TitleBb, "", "") >>],
            [id |-> "p2", name |-> None, lines |-> << Line(1, TitleAb, "u2", "") >>] >>]

\* only the second platform
FileC == [ok |-> TRUE, sections |-> <<
            [id |-> "p2", name |-> "P2", lines |-> << Line(2, TitleBb, "", "") >>] >>]

\* a file that cannot be decoded
FileBad == [ok |-> FALSE, sections |-> <<>>]

FileChoices == {FileA, FileB, FileC, FileBad}

PlatformFilters == {<<>>, <<"p1">>, <<"p2", "p1">>}

MaxFiles == 2        \* snapshot files in one day folder

StartTime == 2 * DayLen - 1   \* the last clock unit of day 1

RECURSIVE SeqsUpTo(_, _)
SeqsUpTo(S, n) ==
    IF n = 0 THEN {<<>>}
    ELSE LET shorter == SeqsUpTo(S, n - 1)
         IN  shorter \cup {Append(q, x) : q \in shorter, x \in S}

\* files as they lie in a folder: content plus st_mtime
Stamped(files, t) == [i \in DOMAIN files |-> files[i] @@ [mtime |-> t + i]]

Folders ==
    {MissingFolder} \cup
    {[exists |-> TRUE, files |-> Stamped(q, 0)] : q \in SeqsUpTo(FileChoices, MaxFiles)}

InitMerge ==
    /\ now = StartTime
    /\ cache = EmptyDict
    /\ timestamps = EmptyDict
    /\ ret = [op |-> "init"]
    /\ evicted = EmptyDict
    /\ SingletonIdle
    /\ CallersIdle
    /\ \E f \in Folders : fs = [d \in {DateOf(StartTime)} |-> f]
    /\ origin = EmptyDict

NextMerge ==
    \E date \in {NoDate, StartTime}, p \in PlatformFilters : ReadAllTitles(date, p)

SpecMerge == InitMerge /\ [][NextMerge]_vars

(***************************************************************************)
(* Text matching (tools/search_tools.py).  Scores are exact rationals      *)
(* [n, d] with d > 0.                                                      *)
(***************************************************************************)

Rat(n, d) == [n |-> n, d |-> d]

RatGE(x, y) == x.n * y.d >= y.n * x.d

RatGT(x, y) == x.n * y.d > y.n * x.d

RatOne == Rat(1, 1)
RatZero == Rat(0, 1)

\* round(x, 4)
Round4(x) == Rat((2 * 10000 * x.n + x.d) \div (2 * x.d), 10000)

\* str.lower() on one character
LowerChar(c) == IF c = "A" THEN "a" ELSE IF c = "B" THEN "b" ELSE c

\* str.lower()
Lower(s) == [i \in DOMAIN s |-> LowerChar(s[i])]

\* `q in t` on strings
IsSubstr(q, t) == \E i \in 0..(Len(t) - Len(q)) : SubSeq(t, i + 1, i + Len(q)) = q

Min(x, y) == IF x <= y THEN x ELSE y

\* the common blocks a[i..i+k-1] = b[j..j+k-1] inside a[alo..ahi], b[blo..bhi]
CommonBlocks(a, b, alo, ahi, blo, bhi) ==
    {blk \in (alo..ahi) \X (blo..bhi) \X (1..Min(ahi - alo + 1, bhi - blo + 1)) :
        /\ blk[1] + blk[3] - 1 <= ahi
        /\ blk[2] + blk[3] - 1 <= bhi
        /\ \A o \in 0..(blk[3] - 1) : a[blk[1] + o] = b[blk[2] + o]}

\* SequenceMatcher.find_longest_match without junk: the longest block, of
\* those the one starting earliest in a, of those the one starting earliest in b
LongestMatch(blocks) ==
    CHOOSE x \in blocks : \A y \in blocks :
        \/ x[3] > y[3]
        \/ x[3] = y[3] /\ x[1] < y[1]
        \/ x[3] = y[3] /\ x[1] = y[1] /\ x[2] <= y[2]

\* the total size of SequenceMatcher.get_matching_blocks()
RECURSIVE MatchCount(_, _, _, _, _, _)
MatchCount(a, b, alo, ahi, blo, bhi) ==
    IF alo > ahi \/ blo > bhi THEN 0
    ELSE LET blocks == CommonBlocks(a, b, alo, ahi, blo, bhi)
         IN  IF blocks = {} THEN 0
             ELSE LET m == LongestMatch(blocks)
                  IN  m[3] + MatchCount(a, b, alo, m[1] - 1, blo, m[2] - 1)
                           + MatchCount(a, b, m[1] + m[3], ahi, m[2] + m[3], bhi)

\* SequenceMatcher(None, a, b).ratio()
Ratio(a, b) ==
    IF Len(a) + Len(b) = 0 THEN RatOne
    ELSE Rat(2 * MatchCount(a, b, 1, Len(a), 1, Len(b)), Len(a) + Len(b))

\* SearchTools._calculate_similarity
calculate_similarity(text1, text2) == Ratio(Lower(text1), Lower(text2))

\* characters that \w does not match and \S does
Punctuation == {"[", "]", ":", "/", ".", ","}

IsSpace(c) == c = " "

IsWordChar(c) == ~IsSpace(c) /\ c \notin Punctuation

StartsWith(s, prefix) == Len(s) >= Len(prefix) /\ SubSeq(s, 1, Len(prefix)) = prefix

\* the text after its leading run of non-space characters
RECURSIVE DropNonSpace(_)
DropNonSpace(s) ==
    IF s = <<>> \/ IsSpace(Head(s)) THEN s ELSE DropNonSpace(Tail(s))

HttpPrefixes == {<<"h", "t", "t", "p", ":", "/", "/">>, <<"h", "t", "t", "p", "s", ":", "/", "/">>}

\* re.sub(r'http[s]?://\S+', '', text)
RECURSIVE StripUrls(_)
StripUrls(s) ==
    IF s = <<>> THEN <<>>
    ELSE IF \E p \in HttpPrefixes :
               /\ StartsWith(s, p)
               /\ Len(s) > Len(p)
               /\ ~IsSpace(s[Len(p) + 1])
         THEN StripUrls(DropNonSpace(s))
         ELSE <<Head(s)>> \o StripUrls(Tail(s))

\* re.sub(r'\[.*?\]', '', text): from each "[" through the next "]"
RECURSIVE StripBrackets(_)
StripBrackets(s) ==
    IF s = <<>> THEN <<>>
    ELSE IF Head(s) = "[" /\ \E i \in 2..Len(s) : s[i] = "]"
         THEN LET close == CHOOSE i \in 2..Len(s) :
                              s[i] = "]" /\ \A j \in 2..(i - 1) : s[j] # "]"
              IN  StripBrackets(SubSeq(s, close + 1, Len(s)))
         ELSE <<Head(s)>> \o StripBrackets(Tail(s))

\* re.findall(r'[\w]+', text): the maximal runs of word characters; word is
\* the run being read
RECURSIVE FindWords(_, _)
FindWords(s, word) ==
    IF s = <<>> THEN (IF word = <<>> THEN <<>> ELSE <<word>>)
    ELSE IF IsWordChar(Head(s)) THEN FindWords(Tail(s), Append(word, Head(s)))
    ELSE (IF word = <<>> THEN <<>> ELSE <<word>>) \o FindWords(Tail(s), <<>>)

\* SearchTools.stopwords: the entries the alphabet of the model can spell
stopwords == {<<"c", "a", "n">>}

\* SearchTools._extract_keywords(text, min_length=2)
extract_keywords(text) ==
    SelectSeq(FindWords(StripBrackets(StripUrls(text)), <<>>),
              LAMBDA w : Len(w) >= 2 /\ w \notin stopwords)

SeqSet(s) == {s[i] : i \in DOMAIN s}

\* SearchTools._fuzzy_match(query, text, threshold) -> (is_match, score)
fuzzy_match(query, text, threshold) ==
    LET similarity  == calculate_similarity(query, text)
        query_words == SeqSet(extract_keywords(query))
        text_words  == SeqSet(extract_keywords(text))
        overlap     == Rat(Cardinality(query_words \cap text_words), Cardinality(query_words))
    IN  IF IsSubstr(Lower(query), Lower(text)) THEN [match |-> TRUE, score |-> RatOne]
        ELSE IF RatGE(similarity, threshold) THEN [match |-> TRUE, score |-> similarity]
        ELSE IF query_words = {} \/ text_words = {} THEN [match |-> FALSE, score |-> RatZero]
        ELSE IF RatGE(overlap, Rat(1, 2)) THEN [match |-> TRUE, score |-> overlap]
        ELSE [match |-> FALSE, score |-> similarity]

\* SearchTools._calculate_keyword_overlap(keywords1, keywords2)
calculate_keyword_overlap(keywords1, keywords2) ==
    IF keywords1 = <<>> \/ keywords2 = <<>> THEN RatZero
    ELSE IF SeqSet(keywords1) \cup SeqSet(keywords2) = {} THEN RatZero
    ELSE Rat(Cardinality(SeqSet(keywords1) \cap SeqSet(keywords2)),
             Cardinality(SeqSet(keywords1) \cup SeqSet(keywords2)))

\* `threshold = max(0.0, min(1.0, threshold))`
ClampThreshold(th) ==
    IF RatGT(th, RatOne) THEN RatOne ELSE IF RatGT(RatZero, th) THEN RatZero ELSE th

\* calculate_news_weight(news_data): 0.6 * rank + 0.3 * frequency + 0.1 * hotness
RECURSIVE SumRankScores(_)
SumRankScores(ranks) ==
    IF ranks = <<>> THEN 0 ELSE (11 - Min(Head(ranks), 10)) + SumRankScores(Tail(ranks))

\* the weight without the cap of 10 on the count
WeightUncappedCount(ranks, count) ==
    IF ranks = <<>> THEN RatZero
    ELSE Rat(6 * SumRankScores(ranks)
               + 3 * count * 10 * Len(ranks)
               + 100 * Cardinality({i \in DOMAIN ranks : ranks[i] <= 5}),
             10 * Len(ranks))

calculate_news_weight(ranks, count) ==
    IF ranks = <<>> THEN RatZero
    ELSE Rat(6 * SumRankScores(ranks)
               + 3 * Min(count, 10) * 10 * Len(ranks)
               + 100 * Cardinality({i \in DOMAIN ranks : ranks[i] <= 5}),
             10 * Len(ranks))

(***************************************************************************)
(* Range scans and the search tools                                        *)
(***************************************************************************)

\* `while current_date <= end_date: read_all_titles_for_date(current_date, ...);
\*  current_date += timedelta(days=1)`: one read per iteration, the store
\* threaded through; a DataNotFoundError is caught by every caller
RECURSIVE ScanRange(_, _, _, _, _, _)
ScanRange(st, disk, t, current, end, platform_ids) ==
    IF current > end THEN [st |-> st, reads |-> <<>>]
    ELSE CHOOSE scan \in
            {[st    |-> rest.st,
              reads |-> <<[dt |-> current, day |-> r.day, key |-> r.key, ttl |-> r.ttl,
                           today |-> r.today, hit |-> r.hit, raised |-> r.raised,
                           value |-> r.value]>> \o rest.reads] :
                <<r, rest>> \in
                   {<<one, ScanRange(one.st, disk, t, current + DayLen, end, platform_ids)>> :
                       one \in {read_all_titles_for_date(st, disk, t, current, platform_ids)}}} : TRUE

\* `for platform_id, titles in all_titles.items(): for title, info in titles.items()`
RECURSIVE TitleEntries(_, _, _)
TitleEntries(pid, titles, names) ==
    IF titles = <<>> THEN <<>>
    ELSE <<[platform |-> pid,
            platform_name |-> IF pid \in DOMAIN names THEN names[pid] ELSE pid,
            title |-> Head(titles).k, info |-> Head(titles).v]>>
         \o TitleEntries(pid, Tail(titles), names)

RECURSIVE IndexEntries(_, _)
IndexEntries(all_titles, names) ==
    IF all_titles = <<>> THEN <<>>
    ELSE TitleEntries(Head(all_titles).k, Head(all_titles).v, names)
         \o IndexEntries(Tail(all_titles), names)

\* the entries of every day of a scan that has data, each with the day it came from
RECURSIVE ScanEntries(_)
ScanEntries(reads) ==
    IF reads = <<>> THEN <<>>
    ELSE (IF Head(reads).raised THEN <<>>
          ELSE LET es == IndexEntries(Head(reads).value.titles, Head(reads).value.names)
               IN  [i \in DOMAIN es |-> es[i] @@ [date |-> Head(reads).day, key |-> Head(reads).key]])
         \o ScanEntries(Tail(reads))

Take(s, n) == SubSeq(s, 1, Min(n, Len(s)))

\* a sort that puts equal keys in the reverse of their original order
SortDescTiesReversed(items, keys) ==
    LET Pos(i) == 1 + Cardinality({j \in DOMAIN items : RatGT(keys[j], keys[i])})
                    + Cardinality({j \in (i + 1)..Len(items) : ~RatGT(keys[j], keys[i]) /\ ~RatGT(keys[i], keys[j])})
    IN  [p \in DOMAIN items |-> items[CHOOSE i \in DOMAIN items : Pos(i) = p]]

\* list.sort(key=..., reverse=True), a stable sort: an item lands after every
\* item with a larger key and after the earlier items with an equal key
SortDesc(items, keys) ==
    LET Pos(i) == 1 + Cardinality({j \in DOMAIN items : RatGT(keys[j], keys[i])})
                    + Cardinality({j \in 1..(i - 1) : ~RatGT(keys[j], keys[i]) /\ ~RatGT(keys[i], keys[j])})
    IN  [p \in DOMAIN items |-> items[CHOOSE i \in DOMAIN items : Pos(i) = p]]

\* the news item the three search modes build (search_tools.py:271-287)
MatchItem(e, score, include_url) ==
    [title |-> e.title, platform |-> e.platform, platform_name |-> e.platform_name,
     date |-> e.date, similarity_score |-> score, ranks |-> e.info.ranks,
     count |-> Len(e.info.ranks),
     rank |-> IF e.info.ranks # <<>> THEN e.info.ranks[1] ELSE 999,
     url |-> IF include_url THEN e.info.url ELSE None,
     mobileUrl |-> IF include_url THEN e.info.mobileUrl ELSE None]

\* _search_by_keyword_mode / _search_by_fuzzy_mode / _search_by_entity_mode on one entry
ModeMatch(search_mode, query, title, threshold) ==
    IF search_mode = "keyword"
    THEN [match |-> IsSubstr(Lower(query), Lower(title)), score |-> RatOne]
    ELSE IF search_mode = "fuzzy"
    THEN [match |-> fuzzy_match(query, title, threshold).match,
          score |-> Round4(fuzzy_match(query, title, threshold).score)]
    ELSE [match |-> IsSubstr(query, title), score |-> RatOne]

RECURSIVE ModeMatches(_, _, _, _, _)
ModeMatches(entries, search_mode, query, threshold, include_url) ==
    IF entries = <<>> THEN <<>>
    ELSE LET m == ModeMatch(search_mode, query, Head(entries).title, threshold)
         IN  (IF m.match THEN <<MatchItem(Head(entries), m.score, include_url)>> ELSE <<>>)
             \o ModeMatches(Tail(entries), search_mode, query, threshold, include_url)

\* DataService.get_available_date_range: the earliest and latest day folder
AvailableDays(disk) == {d \in DOMAIN disk : disk[d].exists}

LatestDay(disk) == CHOOSE d \in AvailableDays(disk) : \A e \in AvailableDays(disk) : e <= d

\* validators.validate_date_range({"start": "YYYY-MM-DD", "end": "YYYY-MM-DD"}):
\* the two days as datetimes at 00:00
validate_date_range(date_range) == [start |-> date_range.start * DayLen, end |-> date_range.end * DayLen]

NoRange == [start |-> NoDate, end |-> NoDate]

SortKey(item, sort_by) ==
    IF sort_by = "relevance" THEN item.similarity_score
    ELSE IF sort_by = "weight" THEN calculate_news_weight(item.ranks, item.count)
    ELSE Rat(item.date, 1)

\* the range search_news_unified scans: the validated date_range, or the
\* latest day that has data
UnifiedRange(date_range, disk) ==
    IF date_range # NoRange THEN validate_date_range(date_range)
    ELSE IF AvailableDays(disk) = {} THEN NoRange
    ELSE [start |-> LatestDay(disk) * DayLen, end |-> LatestDay(disk) * DayLen]

\* SearchTools.search_news_unified
SearchNewsUnified(query, search_mode, date_range, platforms, limit, sort_by, threshold, include_url) ==
    \E th \in {ClampThreshold(threshold)}, range \in {UnifiedRange(date_range, fs)} :
        IF range = NoRange
        THEN /\ ret' = [op |-> "search_unified", query |-> query, search_mode |-> search_mode,
                        start |-> range.start, end |-> range.end, platforms |-> platforms,
                        limit |-> limit, sort_by |-> sort_by, threshold |-> th, at |-> now,
                        success |-> FALSE, error |-> "NO_DATA_AVAILABLE", results |-> <<>>,
                        total_found |-> 0, returned_count |-> 0, include_url |-> include_url,
                        message |-> "", reads |-> <<>>]
             /\ UNCHANGED <<now, cache, timestamps, evicted, fs, origin>>
             /\ UNCHANGED singletonVars
        ELSE \E scan \in {ScanRange(Store, fs, now, range.start, range.end, platforms)} :
             \E matches \in {ModeMatches(ScanEntries(scan.reads), search_mode, query, th, include_url)} :
             \E keys \in {[i \in DOMAIN matches |-> SortKey(matches[i], sort_by)]} :
             \E sorted \in {SortDesc(matches, keys)} :
                /\ StoreBecomes(scan.st)
                /\ ret' = [op |-> "search_unified", query |-> query, search_mode |-> search_mode,
                           start |-> range.start, end |-> range.end, platforms |-> platforms,
                           limit |-> limit, sort_by |-> sort_by, threshold |-> th, at |-> now,
                           success |-> TRUE, error |-> "",
                           results |-> Take(sorted, limit),
                           total_found |-> Len(matches),
                           returned_count |-> Len(Take(sorted, limit)),
                           include_url |-> include_url,
                           message |-> IF matches = <<>> THEN "no matching news" ELSE "",
                           reads |-> scan.reads]
                /\ UNCHANGED <<now, evicted, fs>>
                /\ UNCHANGED singletonVars

RECURSIVE KeywordMatches(_, _)
KeywordMatches(entries, keyword) ==
    IF entries = <<>> THEN <<>>
    ELSE (IF IsSubstr(Lower(keyword), Lower(Head(entries).title))
          THEN <<[title |-> Head(entries).title, platform |-> Head(entries).platform,
                  platform_name |-> Head(entries).platform_name,
                  ranks |-> Head(entries).info.ranks, count |-> Len(Head(entries).info.ranks),
                  url |-> Head(entries).info.url, mobileUrl |-> Head(entries).info.mobileUrl,
                  date |-> Head(entries).date]>>
          ELSE <<>>)
         \o KeywordMatches(Tail(entries), keyword)

\* DataService.search_news_by_keyword(keyword, (start_date, end_date), platforms, limit)
\* as DataQueryTools.search_news_by_keyword returns it: the DataNotFoundError
\* raised for an empty result list comes back as success = False
SearchNewsByKeyword(keyword, start_date, end_date, platforms, limit) ==
    \E start \in {IF start_date = NoDate THEN now ELSE start_date},
       end   \in {IF start_date = NoDate THEN now ELSE end_date} :
    \E scan \in {ScanRange(Store, fs, now, start, end, platforms)} :
    \E results \in {KeywordMatches(ScanEntries(scan.reads), keyword)} :
        /\ StoreBecomes(scan.st)
        /\ ret' = [op |-> "search_by_keyword", query |-> keyword,
                   start |-> start, end |-> end, platforms |-> platforms, limit |-> limit,
                   at |-> now,
                   success |-> results # <<>>,
                   error |-> IF results = <<>> THEN "DATA_NOT_FOUND" ELSE "",
                   results |-> IF limit > 0 THEN Take(results, limit) ELSE results,
                   total_found |-> Len(results),
                   message |-> "",
                   reads |-> scan.reads]
        /\ UNCHANGED <<now, evicted, fs>>
        /\ UNCHANGED singletonVars

RECURSIVE RelatedItems(_, _, _, _)
RelatedItems(entries, reference_text, threshold, include_url) ==
    IF entries = <<>> THEN <<>>
    ELSE LET e        == Head(entries)
             sim      == calculate_similarity(reference_text, e.title)
             overlap  == calculate_keyword_overlap(extract_keywords(reference_text),
                                                   extract_keywords(e.title))
             combined == Rat(7 * overlap.n * sim.d + 3 * sim.n * overlap.d, 10 * overlap.d * sim.d)
         IN  (IF RatGE(combined, threshold)
              THEN <<[title |-> e.title, platform |-> e.platform, platform_name |-> e.platform_name,
                      date |-> e.date, similarity_score |-> Round4(combined),
                      keyword_overlap |-> Round4(overlap), text_similarity |-> Round4(sim),
                      rank |-> IF e.info.ranks # <<>> THEN e.info.ranks[1] ELSE 0]>>
              ELSE <<>>)
             \o RelatedItems(Tail(entries), reference_text, threshold, include_url)

Presets == {"yesterday", "last_week", "last_month", "custom"}

\* SearchTools.search_related_news_history
SearchRelatedNewsHistory(reference_text, time_preset, start_date, end_date, threshold, limit, include_url) ==
    LET th      == ClampThreshold(threshold)
        start   == IF time_preset = "yesterday" THEN now - DayLen
                   ELSE IF time_preset = "last_week" THEN now - 7 * DayLen
                   ELSE IF time_preset = "last_month" THEN now - 30 * DayLen
                   ELSE start_date
        end     == IF time_preset = "custom" THEN end_date ELSE now - DayLen
        invalid == \/ time_preset \notin Presets
                   \/ time_preset = "custom" /\ (start_date = NoDate \/ end_date = NoDate)
                   \/ extract_keywords(reference_text) = <<>>
    IN  IF invalid
        THEN /\ ret' = [op |-> "search_history", query |-> reference_text,
                        time_preset |-> time_preset, start |-> start, end |-> end,
                        limit |-> limit, threshold |-> th, at |-> now,
                        success |-> FALSE, error |-> "INVALID_PARAMETER", results |-> <<>>,
                        total_found |-> 0, message |-> "", reads |-> <<>>]
             /\ UNCHANGED <<now, cache, timestamps, evicted, fs, origin>>
             /\ UNCHANGED singletonVars
        ELSE \E scan \in {ScanRange(Store, fs, now, start, end, <<>>)} :
             \E related \in {RelatedItems(ScanEntries(scan.reads), reference_text, th, include_url)} :
             \E keys \in {[i \in DOMAIN related |-> related[i].similarity_score]} :
             \E sorted \in {SortDesc(related, keys)} :
                /\ StoreBecomes(scan.st)
                /\ ret' = [op |-> "search_history", query |-> reference_text,
                           time_preset |-> time_preset, start |-> start, end |-> end,
                           limit |-> limit, threshold |-> th, at |-> now,
                           success |-> TRUE, error |-> "",
                           results |-> Take(sorted, limit),
                           total_found |-> Len(related),
                           message |-> IF related = <<>> THEN "no related news" ELSE "",
                           reads |-> scan.reads]
                /\ UNCHANGED <<now, evicted, fs>>
                /\ UNCHANGED singletonVars

(***************************************************************************)
(* The search tools over a corpus of several days                          *)
(***************************************************************************)
NumDays == 3          \* day folders 0 .. NumDays - 1 may exist

CorpusDays == 0 .. (NumDays - 1)

SearchNow == NumDays * DayLen + 100   \* 08:20 on the day after the last corpus day

HalfDay == 144        \* 12:00 in clock units

SearchFolders == {MissingFolder, [exists |-> TRUE, files |-> Stamped(<<FileB>>, 0)]}

SearchQueries == {<<"a">>, <<"z">>}

ReferenceTexts == {<<"A", "b">>, <<"z", "z">>, <<"a">>}

DateRanges == {NoRange} \cup {[start |-> a, end |-> b] : a, b \in {0, NumDays - 1}}

\* datetimes of a custom range: the first corpus day at 00:00 and at 12:00,
\* the last one at 00:00
DateTimes == {0, HalfDay, (NumDays - 1) * DayLen}

InitSearch ==
    /\ now = SearchNow
    /\ cache = EmptyDict
    /\ timestamps = EmptyDict
    /\ ret = [op |-> "init"]
    /\ evicted = EmptyDict
    /\ SingletonIdle
    /\ CallersIdle
    /\ fs \in [CorpusDays -> SearchFolders]
    /\ origin = EmptyDict

NextSearch ==
    \/ \E q \in SearchQueries, m \in {"keyword", "fuzzy", "entity"}, r \in DateRanges :
            SearchNewsUnified(q, m, r, <<>>, 50, "relevance", Rat(3, 5), FALSE)
    \/ \E p \in {<<>>, <<"p1">>}, s \in {"relevance", "weight", "date"}, l \in {1, 50} :
            SearchNewsUnified(<<"a">>, "keyword", [start |-> 0, end |-> NumDays - 1],
                              p, l, s, Rat(3, 5), TRUE)
    \/ \E q \in SearchQueries, a, b \in {NoDate} \cup DateTimes :
            /\ (a = NoDate) = (b = NoDate)
            /\ SearchNewsByKeyword(q, a, b, <<>>, IF a = 0 THEN 1 ELSE 0)
    \/ \E x \in ReferenceTexts, tp \in {"yesterday", "last_week", "tomorrow"} :
            SearchRelatedNewsHistory(x, tp, NoDate, NoDate, Rat(2, 5), 50, FALSE)
    \/ \E x \in ReferenceTexts \ {<<"a">>}, a, b \in {NoDate} \cup DateTimes :
            SearchRelatedNewsHistory(x, "custom", a, b, Rat(2, 5), 50, TRUE)

SpecSearch == InitSearch /\ [][NextSearch]_vars

(***************************************************************************)
(* Sentiment analysis over a range of days                                 *)
(***************************************************************************)
NoTopic == <<>>

\* the news items analyze_sentiment collects (analytics.py:705-730); ranks is
\* the rank list of the day index itself, so an item records where that list
\* lives: the cache key of the index, the platform id and the title
RECURSIVE SentimentItems(_, _)
SentimentItems(entries, topic) ==
    IF entries = <<>> THEN <<>>
    ELSE (IF topic # NoTopic /\ ~IsSubstr(Lower(topic), Lower(Head(entries).title)) THEN <<>>
          ELSE <<[platform |-> Head(entries).platform_name, title |-> Head(entries).title,
                  ranks |-> Head(entries).info.ranks, count |-> Len(Head(entries).info.ranks),
                  date |-> Head(entries).date,
                  key |-> Head(entries).key, platform_id |-> Head(entries).platform]>>)
         \o SentimentItems(Tail(entries), topic)

SameNews(x, y) == x.platform = y.platform /\ x.title = y.title

\* the rank lists `existing["ranks"].extend(item["ranks"])` appends to the
\* item at position i: those of the later items with its platform and title
RECURSIVE ExtendedRanks(_, _, _)
ExtendedRanks(items, i, j) ==
    IF j > Len(items) THEN <<>>
    ELSE (IF SameNews(items[i], items[j]) THEN items[j].ranks ELSE <<>>)
         \o ExtendedRanks(items, i, j + 1)

\* unique_news.values(): the first item of every platform::title, its rank
\* list extended by the later ones (analytics.py:741-754)
Deduplicate(items) ==
    LET firsts == SelectSeq([i \in DOMAIN items |-> i],
                            LAMBDA i : \A j \in 1..(i - 1) : ~SameNews(items[j], items[i]))
    IN  [u \in DOMAIN firsts |->
            LET ranks == items[firsts[u]].ranks \o ExtendedRanks(items, firsts[u], firsts[u] + 1)
            IN  [items[firsts[u]] EXCEPT !.ranks = ranks, !.count = Len(ranks)]]

\* the day index with the rank list of (platform_id, title) replaced
WithRanks(index, platform_id, title, ranks) ==
    [index EXCEPT !.titles =
        OPut(index.titles, platform_id,
             OPut(OGet(index.titles, platform_id), title,
                  [OGet(OGet(index.titles, platform_id), title) EXCEPT !.ranks = ranks]))]

\* what the extends leave in the cache: the rank lists of the unique items are
\* the lists inside the cached day indexes
RECURSIVE AfterExtends(_, _)
AfterExtends(c, unique) ==
    IF unique = <<>> THEN c
    ELSE AfterExtends([c EXCEPT ![Head(unique).key] =
                          WithRanks(c[Head(unique).key], Head(unique).platform_id,
                                    Head(unique).title, Head(unique).ranks)],
                      Tail(unique))

MaxRanks == 4         \* rank lists are not extended beyond this length

\* AnalyticsTools.analyze_sentiment
AnalyzeSentiment(topic, platforms, date_range, limit, sort_by_weight) ==
    \E range \in {IF date_range # NoRange THEN validate_date_range(date_range)
                  ELSE [start |-> now, end |-> now]} :
    \E scan \in {ScanRange(Store, fs, now, range.start, range.end, platforms)} :
    \E items \in {SentimentItems(ScanEntries(scan.reads), topic)} :
        IF items = <<>>
        THEN /\ StoreBecomes(scan.st)
             /\ ret' = [op |-> "analyze_sentiment", query |-> topic, start |-> range.start,
                        end |-> range.end, platforms |-> platforms, limit |-> limit, at |-> now,
                        success |-> FALSE, error |-> "DATA_NOT_FOUND", results |-> <<>>,
                        total_found |-> 0, duplicates_removed |-> 0, reads |-> scan.reads]
             /\ UNCHANGED <<now, evicted, fs>>
             /\ UNCHANGED singletonVars
        ELSE \E unique \in {Deduplicate(items)} :
             \E keys \in {[i \in DOMAIN unique |-> calculate_news_weight(unique[i].ranks, unique[i].count)]} :
             \E sorted \in {IF sort_by_weight THEN SortDesc(unique, keys) ELSE unique} :
                /\ \A i \in DOMAIN unique : Len(unique[i].ranks) <= MaxRanks
                /\ cache' = AfterExtends(scan.st.cache, unique)
                /\ timestamps' = scan.st.timestamps
                /\ origin' = scan.st.origin
                /\ ret' = [op |-> "analyze_sentiment", query |-> topic, start |-> range.start,
                           end |-> range.end, platforms |-> platforms, limit |-> limit, at |-> now,
                           success |-> TRUE, error |-> "",
                           results |-> Take(sorted, limit),
                           total_found |-> Len(unique),
                           duplicates_removed |-> Len(items) - Len(unique),
                           reads |-> scan.reads]
                /\ UNCHANGED <<now, evicted, fs>>
                /\ UNCHANGED singletonVars

(***************************************************************************)
(* The data-service queries                                                *)
(***************************************************************************)

\* str(include_url)
BoolStr(b) == IF b THEN "True" ELSE "False"

\* strftime("%Y-%m-%d") of a day
DateStr(day) == "d" \o ToString(day)

\* one cache read of an operation: the key, the window and whether the value
\* under the key is derived from the snapshot files of the current day
CacheRead(key, ttl, today) == [key |-> key, ttl |-> ttl, today |-> today]

TTL_LATEST == 900
TTL_BY_DATE == 1800
TTL_TRENDING == 1800

\* news_list.sort(key=lambda x: x["rank"]): ascending and stable
SortByRank(items) == SortDesc(items, [i \in DOMAIN items |-> Rat(0 - items[i].rank, 1)])

RECURSIVE LatestItems(_, _, _)
LatestItems(entries, fetch_time, include_url) ==
    IF entries = <<>> THEN <<>>
    ELSE <<[title |-> Head(entries).title, platform |-> Head(entries).platform,
            platform_name |-> Head(entries).platform_name,
            rank |-> IF Head(entries).info.ranks # <<>> THEN Head(entries).info.ranks[1] ELSE 0,
            timestamp |-> fetch_time,
            url |-> IF include_url THEN Head(entries).info.url ELSE None,
            mobileUrl |-> IF include_url THEN Head(entries).info.mobileUrl ELSE None]>>
         \o LatestItems(Tail(entries), fetch_time, include_url)

\* max(timestamps.values())
MaxStamp(stamps) == CHOOSE m \in {stamps[k] : k \in DOMAIN stamps} : \A k \in DOMAIN stamps : stamps[k] <= m

\* DataService.get_latest_news(platforms, limit, include_url)
GetLatestNews(platforms, limit, include_url) ==
    \E key \in {"latest_news:" \o Join(platforms) \o ":" \o ToString(limit) \o ":" \o BoolStr(include_url)} :
    \E g \in {StGet(Store, now, key, TTL_LATEST)} :
        IF g.hit /\ g.value # <<>>
        THEN /\ StoreBecomes(g.st)
             /\ ret' = [op |-> "latest_news", key |-> key, day |-> DateOf(now), platforms |-> platforms,
                        limit |-> limit, at |-> now, hit |-> TRUE, raised |-> FALSE, value |-> g.value,
                        gets |-> <<CacheRead(key, TTL_LATEST, TRUE)>>]
             /\ UNCHANGED <<now, evicted, fs>>
             /\ UNCHANGED singletonVars
        ELSE \E r \in {read_all_titles_for_date(g.st, fs, now, NoDate, platforms)} :
             \E news_list \in {IF r.raised THEN <<>>
                               ELSE SortByRank(LatestItems(IndexEntries(r.value.titles, r.value.names),
                                                           MaxStamp(r.value.stamps), include_url))} :
                /\ StoreBecomes(IF r.raised THEN r.st
                                ELSE StSet(r.st, now, key, Take(news_list, limit), DateOf(now), platforms))
                /\ ret' = [op |-> "latest_news", key |-> key, day |-> DateOf(now), platforms |-> platforms,
                           limit |-> limit, at |-> now, hit |-> FALSE, raised |-> r.raised,
                           value |-> Take(news_list, limit),
                           gets |-> <<CacheRead(key, TTL_LATEST, TRUE), CacheRead(r.key, r.ttl, r.today)>>]
                /\ UNCHANGED <<now, evicted, fs>>
                /\ UNCHANGED singletonVars

\* sum(ranks)
RECURSIVE SumSeq(_)
SumSeq(q) == IF q = <<>> THEN 0 ELSE Head(q) + SumSeq(Tail(q))

\* round(x, 2) of a non-negative x, in hundredths
Round2(x) == Rat((2 * 100 * x.n + x.d) \div (2 * x.d), 100)

RECURSIVE ByDateItems(_, _, _)
ByDateItems(entries, day, include_url) ==
    IF entries = <<>> THEN <<>>
    ELSE <<[title |-> Head(entries).title, platform |-> Head(entries).platform,
            platform_name |-> Head(entries).platform_name,
            rank |-> IF Head(entries).info.ranks # <<>> THEN Head(entries).info.ranks[1] ELSE 0,
            avg_rank |-> IF Head(entries).info.ranks # <<>>
                         THEN Round2(Rat(SumSeq(Head(entries).info.ranks), Len(Head(entries).info.ranks)))
                         ELSE RatZero,
            count |-> Len(Head(entries).info.ranks),
            date |-> DateStr(day),
            url |-> IF include_url THEN Head(entries).info.url ELSE None,
            mobileUrl |-> IF include_url THEN Head(entries).info.mobileUrl ELSE None]>>
         \o ByDateItems(Tail(entries), day, include_url)

\* DataService.get_news_by_date(target_date, platforms, limit, include_url)
GetNewsByDate(target_date, platforms, limit, include_url) ==
    \E key \in {"news_by_date:" \o DateStr(DateOf(target_date)) \o ":" \o Join(platforms)
                   \o ":" \o ToString(limit) \o ":" \o BoolStr(include_url)} :
    \E g \in {StGet(Store, now, key, TTL_BY_DATE)}, today \in {DateOf(target_date) = DateOf(now)} :
        IF g.hit /\ g.value # <<>>
        THEN /\ StoreBecomes(g.st)
             /\ ret' = [op |-> "news_by_date", key |-> key, day |-> DateOf(target_date),
                        platforms |-> platforms, limit |-> limit, at |-> now,
                        hit |-> TRUE, raised |-> FALSE, value |-> g.value,
                        gets |-> <<CacheRead(key, TTL_BY_DATE, today)>>]
             /\ UNCHANGED <<now, evicted, fs>>
             /\ UNCHANGED singletonVars
        ELSE \E r \in {read_all_titles_for_date(g.st, fs, now, target_date, platforms)} :
             \E news_list \in {IF r.raised THEN <<>>
                               ELSE SortByRank(ByDateItems(IndexEntries(r.value.titles, r.value.names),
                                                           DateOf(target_date), include_url))} :
                /\ StoreBecomes(IF r.raised THEN r.st
                                ELSE StSet(r.st, now, key, Take(news_list, limit),
                                           DateOf(target_date), platforms))
                /\ ret' = [op |-> "news_by_date", key |-> key, day |-> DateOf(target_date),
                           platforms |-> platforms, limit |-> limit, at |-> now,
                           hit |-> FALSE, raised |-> r.raised, value |-> Take(news_list, limit),
                           gets |-> <<CacheRead(key, TTL_BY_DATE, today), CacheRead(r.key, r.ttl, r.today)>>]
                /\ UNCHANGED <<now, evicted, fs>>
                /\ UNCHANGED singletonVars

\* ParserService.parse_frequency_words(): required + normal words of every
\* group of config/frequency_words.txt, in file order
FrequencyWords == << <<"b">>, <<"A">>, <<"z">> >>

\* the (word, title) pairs the counting loop visits, in its order
\* (data_service.py:357-371): `if word and word in title`
RECURSIVE WordHits(_, _)
WordHits(entries, words) ==
    IF entries = <<>> THEN <<>>
    ELSE LET hits == SelectSeq(words, LAMBDA w : w # <<>> /\ IsSubstr(w, Head(entries).title))
         IN  [i \in DOMAIN hits |-> [word |-> hits[i], title |-> Head(entries).title]]
             \o WordHits(Tail(entries), words)

\* Counter.most_common(top_n) and the topic built for each keyword; a Counter
\* keeps its keys in the order of their first increment
Topics(hits, top_n) ==
    LET firsts == SelectSeq([i \in DOMAIN hits |-> i],
                            LAMBDA i : \A j \in 1..(i - 1) : hits[j].word # hits[i].word)
        counted == [u \in DOMAIN firsts |->
                      [keyword      |-> hits[firsts[u]].word,
                       frequency    |-> Cardinality({j \in DOMAIN hits : hits[j].word = hits[firsts[u]].word}),
                       matched_news |-> Cardinality({hits[j].title : j \in
                                            {k \in DOMAIN hits : hits[k].word = hits[firsts[u]].word}}),
                       trend        |-> "stable"]]
    IN  Take(SortDesc(counted, [u \in DOMAIN counted |-> Rat(counted[u].frequency, 1)]), top_n)

TrendingModes == {"daily", "current"}

\* DataService.get_trending_topics(top_n, mode)
GetTrendingTopics(top_n, mode) ==
    \E key \in {"trending_topics:" \o ToString(top_n) \o ":" \o mode} :
    \E g \in {StGet(Store, now, key, TTL_TRENDING)} :
        IF g.hit
        THEN /\ StoreBecomes(g.st)
             /\ ret' = [op |-> "trending_topics", key |-> key, day |-> DateOf(now), platforms |-> <<>>,
                        limit |-> top_n, at |-> now, hit |-> TRUE, raised |-> FALSE, value |-> g.value,
                        gets |-> <<CacheRead(key, TTL_TRENDING, TRUE)>>]
             /\ UNCHANGED <<now, evicted, fs>>
             /\ UNCHANGED singletonVars
        ELSE \E r \in {read_all_titles_for_date(g.st, fs, now, NoDate, <<>>)} :
             \E again \in {IF ~r.raised /\ mode = "current"
                           THEN read_all_titles_for_date(r.st, fs, now, NoDate, <<>>) ELSE r} :
             \E hits \in {IF again.raised THEN <<>>
                          ELSE WordHits(IndexEntries(again.value.titles, again.value.names), FrequencyWords)} :
             \E result \in {[topics |-> Topics(hits, top_n), generated_at |-> now, mode |-> mode,
                             total_keywords |-> Cardinality({hits[i].word : i \in DOMAIN hits})]} :
             \E raised \in {again.raised \/ mode \notin TrendingModes} :
                /\ StoreBecomes(IF raised THEN again.st
                                ELSE StSet(again.st, now, key, result, DateOf(now), <<>>))
                /\ ret' = [op |-> "trending_topics", key |-> key, day |-> DateOf(now), platforms |-> <<>>,
                           limit |-> top_n, at |-> now, hit |-> FALSE, raised |-> raised,
                           value |-> IF raised THEN None ELSE result,
                           gets |-> <<CacheRead(key, TTL_TRENDING, TRUE), CacheRead(r.key, r.ttl, r.today)>>
                                    \o (IF ~r.raised /\ mode = "current"
                                        THEN <<CacheRead(again.key, again.ttl, again.today)>> ELSE <<>>)]
                /\ UNCHANGED <<now, evicted, fs>>
                /\ UNCHANGED singletonVars

\* SystemManagementTools.trigger_crawl(save_to_local=True): a new snapshot file
\* lands in the folder of the current day, after the files already there; the
\* file is named by the time of day, so there is one file per instant
Crawl(file) ==
    /\ Len(FolderOf(fs, DateOf(now)).files) < MaxFiles
    /\ \A d \in DOMAIN fs : \A i \in DOMAIN fs[d].files : fs[d].files[i].mtime < now
    /\ fs' = [d \in DOMAIN fs \cup {DateOf(now)} |->
                IF d = DateOf(now)
                THEN [exists |-> TRUE,
                      files  |-> Append(FolderOf(fs, d).files, file @@ [mtime |-> now])]
                ELSE fs[d]]
    /\ ret' = [op |-> "crawl"]
    /\ UNCHANGED <<now, cache, timestamps, evicted, origin>>
    /\ UNCHANGED singletonVars

MaxElapsed == 2       \* clock units the queries are followed for

\* time passes
Elapse ==
    /\ now < StartTime + MaxElapsed
    /\ now' = now + 1
    /\ ret' = [op |-> "elapse"]
    /\ UNCHANGED <<cache, timestamps, evicted, fs, origin>>
    /\ UNCHANGED singletonVars

(***************************************************************************)
(* The queries around midnight: the clock starts in the last five minutes  *)
(* of day 1                                                                *)
(***************************************************************************)
InitQueries ==
    /\ now = StartTime
    /\ cache = EmptyDict
    /\ timestamps = EmptyDict
    /\ ret = [op |-> "init"]
    /\ evicted = EmptyDict
    /\ SingletonIdle
    /\ CallersIdle
    /\ fs = [d \in {DateOf(StartTime)} |-> [exists |-> TRUE, files |-> Stamped(<<FileB>>, StartTime - DayLen)]]
    /\ origin = EmptyDict

NextQueries ==
    \/ Elapse
    \/ Crawl(FileC)
    \/ GetLatestNews(<<>>, 50, FALSE)
    \/ GetNewsByDate(now, <<>>, 50, TRUE)
    \/ \E m \in TrendingModes \cup {"incremental"} : GetTrendingTopics(10, m)

SpecQueries == InitQueries /\ [][NextQueries]_vars

(***************************************************************************)
(* Day indexes shared by the operations that read them                     *)
(***************************************************************************)
InitIndex ==
    /\ now = SearchNow
    /\ cache = EmptyDict
    /\ timestamps = EmptyDict
    /\ ret = [op |-> "init"]
    /\ evicted = EmptyDict
    /\ SingletonIdle
    /\ CallersIdle
    /\ fs \in [CorpusDays -> {MissingFolder, [exists |-> TRUE, files |-> Stamped(<<FileA>>, 0)]}]
    /\ origin = EmptyDict

NextIndex ==
    \/ \E d \in CorpusDays : ReadAllTitles(d * DayLen, <<>>)
    \/ \E t \in {NoTopic, <<"z">>}, p \in {<<>>, <<"p1">>},
          r \in {NoRange, [start |-> 0, end |-> 0], [start |-> 0, end |-> NumDays - 1]} :
          AnalyzeSentiment(t, p, r, 50, p = <<>>)
    \/ \E q \in SearchQueries :
          SearchNewsUnified(q, "keyword", [start |-> 0, end |-> NumDays - 1], <<>>, 50, "weight", Rat(3, 5), FALSE)

SpecIndex == InitIndex /\ [][NextIndex]_vars

(***************************************************************************)
(* The text-matching functions applied to one query and one title          *)
(***************************************************************************)
MaxWords == 2         \* words per text

TextWords == {<<"a", "b">>, <<"b", "a">>, <<"A", "b">>, <<"a">>}

\* the words of ws separated by single spaces
RECURSIVE JoinWords(_)
JoinWords(ws) == IF Len(ws) = 1 THEN ws[1] ELSE ws[1] \o <<" ">> \o JoinWords(Tail(ws))

Texts == {JoinWords(ws) : ws \in UNION {[1..n -> TextWords] : n \in 1..MaxWords}}

RequestedThresholds == {Rat(3, 10), Rat(1, 1), Rat(11, 10)}

\* fuzzy mode of search_news_unified on one title: the threshold is clamped,
\* then _fuzzy_match decides
FuzzyMatchTitle ==
    /\ ret.op = "text_input"
    /\ \E th \in {ClampThreshold(ret.threshold)} :
       \E m \in {fuzzy_match(ret.query, ret.text, th)} :
            ret' = [op |-> "fuzzy_match", query |-> ret.query, text |-> ret.text,
                    requested |-> ret.threshold, threshold |-> th,
                    match |-> m.match, score |-> m.score]
    /\ UNCHANGED <<now, cache, timestamps, evicted, fs, origin>>
    /\ UNCHANGED singletonVars

\* search_related_news_history on one title of one day
ScoreRelatedTitle ==
    /\ ret.op = "text_input"
    /\ \E th \in {ClampThreshold(ret.threshold)} :
       \E entry \in {[platform |-> "p1", platform_name |-> "P1", title |-> ret.text,
                      info |-> [ranks |-> <<1>>, url |-> "", mobileUrl |-> ""], date |-> 0]} :
       \E related \in {IF extract_keywords(ret.query) = <<>> THEN <<>>
                       ELSE RelatedItems(<<entry>>, ret.query, th, FALSE)} :
            ret' = [op |-> "related_score", query |-> ret.query, text |-> ret.text,
                    requested |-> ret.threshold, threshold |-> th,
                    success |-> extract_keywords(ret.query) # <<>>,
                    results |-> related]
    /\ UNCHANGED <<now, cache, timestamps, evicted, fs, origin>>
    /\ UNCHANGED singletonVars

InitText ==
    /\ now = SearchNow
    /\ cache = EmptyDict
    /\ timestamps = EmptyDict
    /\ ret \in {[op |-> "text_input", query |-> q, text |-> t, threshold |-> th] :
                    q \in Texts, t \in Texts, th \in RequestedThresholds}
    /\ evicted = EmptyDict
    /\ SingletonIdle
    /\ CallersIdle
    /\ fs = [d \in CorpusDays |-> MissingFolder]
    /\ origin = EmptyDict

NextText ==
    \/ FuzzyMatchTitle
    \/ ScoreRelatedTitle

SpecText == InitText /\ [][NextText]_vars

(***************************************************************************)
(* calculate_news_weight applied to one record after another               *)
(***************************************************************************)
MaxRankLen == 2       \* ranks per record

RankValues == {5, 6, 7, 12}

RankLists == UNION {[1..n -> RankValues] : n \in 0..MaxRankLen}

Counts == {9, 10, 11}

\* one call of calculate_news_weight({"ranks": ranks, "count": count}); the
\* state keeps the call before it
WeighNews(ranks, count) ==
    /\ ret.op \in {"weight_input", "news_weight"}
    /\ ret' = [op |-> "news_weight", ranks |-> ranks, count |-> count,
               weight |-> calculate_news_weight(ranks, count),
               prev |-> IF ret.op = "news_weight"
                        THEN [called |-> TRUE, ranks |-> ret.ranks, count |-> ret.count,
                              weight |-> ret.weight]
                        ELSE [called |-> FALSE, ranks |-> <<>>, count |-> 0, weight |-> RatZero]]
    /\ UNCHANGED <<now, cache, timestamps, evicted, fs, origin>>
    /\ UNCHANGED singletonVars

InitWeight ==
    /\ now = SearchNow
    /\ cache = EmptyDict
    /\ timestamps = EmptyDict
    /\ ret = [op |-> "weight_input"]
    /\ evicted = EmptyDict
    /\ SingletonIdle
    /\ CallersIdle
    /\ fs = [d \in CorpusDays |-> MissingFolder]
    /\ origin = EmptyDict

NextWeight == \E ranks \in RankLists, count \in Counts : WeighNews(ranks, count)

SpecWeight == InitWeight /\ [][NextWeight]_vars

(***************************************************************************)
(* Trend and lifecycle of a topic over a range of days (tools/analytics.py)*)
(***************************************************************************)

\* `for _, titles in all_titles.items(): for title in titles.keys():
\*      if topic.lower() in title.lower()`: the matching titles of one day
TopicTitles(read, topic) ==
    LET es == IndexEntries(read.value.titles, read.value.names)
        hits == SelectSeq(es, LAMBDA e : IsSubstr(Lower(topic), Lower(e.title)))
    IN  [i \in DOMAIN hits |-> hits[i].title]

\* the series without the days whose read raised DataNotFoundError
DaySeriesDropsMissing(reads, topic) ==
    LET found == SelectSeq(reads, LAMBDA r : ~r.raised)
    IN  [i \in DOMAIN found |->
            [date |-> found[i].day, count |-> Len(TopicTitles(found[i], topic)),
             sample_titles |-> Take(TopicTitles(found[i], topic), 3)]]

\* one entry per iteration of the day loop; a DataNotFoundError gives count 0
DaySeries(reads, topic) ==
    [i \in DOMAIN reads |->
        IF reads[i].raised
        THEN [date |-> reads[i].day, count |-> 0, sample_titles |-> <<>>]
        ELSE [date |-> reads[i].day, count |-> Len(TopicTitles(reads[i], topic)),
              sample_titles |-> Take(TopicTitles(reads[i], topic), 3)]]

CountsOf(series) == [i \in DOMAIN series |-> series[i].count]

\* max(counts)
MaxOf(counts) == CHOOSE m \in SeqSet(counts) : \A c \in SeqSet(counts) : c <= m

\* counts.index(max_count): the first position of the maximum
PeakIndex(counts) ==
    CHOOSE i \in DOMAIN counts : counts[i] = MaxOf(counts) /\ \A j \in 1..(i - 1) : counts[j] # MaxOf(counts)

\* next((c for c in counts if c > 0), 0)
FirstNonZero(counts) ==
    IF \A i \in DOMAIN counts : counts[i] = 0 THEN 0
    ELSE counts[CHOOSE i \in DOMAIN counts : counts[i] > 0 /\ \A j \in 1..(i - 1) : counts[j] = 0]

\* round(x, 2) of a rational of either sign
Round2Signed(x) == Rat((2 * 100 * x.n + x.d) \div (2 * x.d), 100)

\* `end_date = datetime.now(); start_date = end_date - timedelta(days=6)`
DefaultDaysBack == 6

TrendRange(date_range, t) ==
    IF date_range # NoRange THEN validate_date_range(date_range)
    ELSE [start |-> t - DefaultDaysBack * DayLen, end |-> t]

\* (end_date - start_date).days + 1
TotalDays(range) == (range.end - range.start) \div DayLen + 1

\* AnalyticsTools.get_topic_trend_analysis
GetTopicTrendAnalysis(topic, date_range, granularity) ==
    IF granularity # "day"
    THEN /\ ret' = [op |-> "topic_trend", query |-> topic, granularity |-> granularity, at |-> now,
                    success |-> FALSE, error |-> "INVALID_PARAMETER"]
         /\ UNCHANGED <<now, cache, timestamps, evicted, fs, origin>>
         /\ UNCHANGED singletonVars
    ELSE \E range \in {TrendRange(date_range, now)} :
         \E scan \in {ScanRange(Store, fs, now, range.start, range.end, <<>>)} :
         \E trend_data \in {DaySeries(scan.reads, topic)} :
         \E counts \in {CountsOf(trend_data)} :
         \E change_rate \in {IF Len(counts) >= 2 /\ FirstNonZero(counts) > 0
                             THEN Rat((counts[Len(counts)] - FirstNonZero(counts)) * 100,
                                      FirstNonZero(counts))
                             ELSE RatZero} :
            /\ StoreBecomes(scan.st)
            /\ ret' = [op |-> "topic_trend", query |-> topic, granularity |-> granularity, at |-> now,
                       success |-> TRUE, error |-> "",
                       start |-> range.start, end |-> range.end,
                       total_days |-> TotalDays(range),
                       trend_data |-> trend_data,
                       total_mentions |-> SumSeq(counts),
                       average_mentions |-> IF counts # <<>>
                                            THEN Round2(Rat(SumSeq(counts), Len(counts)))
                                            ELSE RatZero,
                       peak_count |-> IF Len(counts) >= 2 THEN MaxOf(counts) ELSE 0,
                       peak_time |-> IF Len(counts) >= 2 THEN trend_data[PeakIndex(counts)].date
                                     ELSE NoDate,
                       change_rate |-> Round2Signed(change_rate),
                       trend_direction |-> IF RatGT(change_rate, Rat(10, 1)) THEN "up"
                                           ELSE IF RatGT(Rat(-10, 1), change_rate) THEN "down"
                                           ELSE "stable",
                       reads |-> scan.reads]
            /\ UNCHANGED <<now, evicted, fs>>
            /\ UNCHANGED singletonVars

\* counts[-3:] and counts[:3]
LastThree(counts) == SubSeq(counts, IF Len(counts) > 3 THEN Len(counts) - 2 ELSE 1, Len(counts))
FirstThree(counts) == SubSeq(counts, 1, Min(3, Len(counts)))

\* the lifecycle stage: 上升期 "rising", 衰退期 "declining", 爆发期 "bursting", 稳定期 "stable"
LifecycleStage(counts) ==
    IF SumSeq(LastThree(counts)) > SumSeq(FirstThree(counts)) THEN "rising"
    ELSE IF 2 * SumSeq(LastThree(counts)) < SumSeq(FirstThree(counts)) THEN "declining"
    ELSE IF MaxOf(counts) \in SeqSet(LastThree(counts)) THEN "bursting"
    ELSE "stable"

\* the topic type: 昙花一现 "flash", 持续热点 "sustained", 周期性热点 "periodic";
\* avg_count is the mean of the non-zero counts
TopicType(counts, total_days) ==
    LET non_zero    == SelectSeq(counts, LAMBDA c : c > 0)
        active_days == Len(non_zero)
    IN  IF active_days <= 2 /\ MaxOf(counts) * Len(non_zero) > 2 * SumSeq(non_zero) THEN "flash"
        ELSE IF 10 * active_days >= 6 * total_days THEN "sustained"
        ELSE "periodic"

\* AnalyticsTools.analyze_topic_lifecycle
AnalyzeTopicLifecycle(topic, date_range) ==
    \E range \in {TrendRange(date_range, now)} :
    \E scan \in {ScanRange(Store, fs, now, range.start, range.end, <<>>)} :
    \E lifecycle_data \in {DaySeries(scan.reads, topic)} :
    \E counts \in {CountsOf(lifecycle_data)} :
        /\ StoreBecomes(scan.st)
        /\ IF \A i \in DOMAIN counts : counts[i] = 0
           THEN ret' = [op |-> "topic_lifecycle", query |-> topic, at |-> now,
                        start |-> range.start, end |-> range.end,
                        success |-> FALSE, error |-> "DATA_NOT_FOUND", reads |-> scan.reads]
           ELSE \E non_zero \in {SelectSeq(counts, LAMBDA c : c > 0)} :
                ret' = [op |-> "topic_lifecycle", query |-> topic, at |-> now,
                        start |-> range.start, end |-> range.end,
                        success |-> TRUE, error |-> "",
                        total_days |-> TotalDays(range),
                        lifecycle_data |-> [i \in DOMAIN lifecycle_data |->
                                               [date |-> lifecycle_data[i].date,
                                                count |-> lifecycle_data[i].count]],
                        first_appearance |-> lifecycle_data[CHOOSE i \in DOMAIN counts :
                                                 counts[i] > 0 /\ \A j \in 1..(i - 1) : counts[j] = 0].date,
                        last_appearance |-> lifecycle_data[CHOOSE i \in DOMAIN counts :
                                                 counts[i] > 0 /\ \A j \in (i + 1)..Len(counts) : counts[j] = 0].date,
                        peak_date |-> lifecycle_data[PeakIndex(counts)].date,
                        peak_count |-> MaxOf(counts),
                        active_days |-> Len(non_zero),
                        avg_daily_mentions |-> Round2(Rat(SumSeq(non_zero), Len(non_zero))),
                        lifecycle_stage |-> LifecycleStage(counts),
                        topic_type |-> TopicType(counts, TotalDays(range)),
                        reads |-> scan.reads]
        /\ UNCHANGED <<now, evicted, fs>>
        /\ UNCHANGED singletonVars

(***************************************************************************)
(* The trend tools over a corpus of one default range                      *)
(***************************************************************************)
TrendDays == 0 .. DefaultDaysBack

TrendNow == DefaultDaysBack * DayLen + 100   \* 08:20 on the last corpus day

TrendFolders == {MissingFolder,
                 [exists |-> TRUE, files |-> Stamped(<<FileA>>, 0)],
                 [exists |-> TRUE, files |-> Stamped(<<FileB>>, 0)]}

\* "b" is in one title of FileA and in three of FileB
TrendTopic == <<"b">>

\* the default range, a range of two days and a range of one day
TrendRanges == {NoRange, [start |-> 0, end |-> 1], [start |-> 1, end |-> 1]}

InitTrend ==
    /\ now = TrendNow
    /\ cache = EmptyDict
    /\ timestamps = EmptyDict
    /\ ret = [op |-> "init"]
    /\ evicted = EmptyDict
    /\ SingletonIdle
    /\ CallersIdle
    /\ fs \in [TrendDays -> TrendFolders]
    /\ origin = EmptyDict

NextTrend ==
    \/ \E r \in TrendRanges : GetTopicTrendAnalysis(TrendTopic, r, "day")
    \/ GetTopicTrendAnalysis(TrendTopic, NoRange, "hour")
    \/ \E r \in TrendRanges : AnalyzeTopicLifecycle(TrendTopic, r)

SpecTrend == InitTrend /\ [][NextTrend]_vars

(***************************************************************************)
(* Viral-topic detection: today's keyword counts against yesterday's       *)
(***************************************************************************)

\* re.sub(r'[^\w\s]', ' ', title)
BlankPunctuation(s) == [i \in DOMAIN s |-> IF IsWordChar(s[i]) \/ IsSpace(s[i]) THEN s[i] ELSE " "]

\* AnalyticsTools._extract_keywords(title, min_length=2): the URL-free title
\* with punctuation blanked, split on whitespace; none of its stopwords can be
\* spelled in the alphabet of the model
analytics_extract_keywords(title) ==
    SelectSeq(FindWords(BlankPunctuation(StripUrls(title)), <<>>), LAMBDA w : Len(w) >= 2)

\* `for title in titles.keys(): keywords = self._extract_keywords(title)`: every
\* keyword occurrence of the day with its title, in iteration order
RECURSIVE KeywordOccurrences(_)
KeywordOccurrences(entries) ==
    IF entries = <<>> THEN <<>>
    ELSE LET kws == analytics_extract_keywords(Head(entries).title)
         IN  [i \in DOMAIN kws |-> [keyword |-> kws[i], title |-> Head(entries).title]]
                \o KeywordOccurrences(Tail(entries))

\* Counter.update(keywords): keys in order of first occurrence
RECURSIVE CountKeywords(_, _)
CountKeywords(occurrences, counter) ==
    IF occurrences = <<>> THEN counter
    ELSE LET kw == Head(occurrences).keyword
         IN  CountKeywords(Tail(occurrences),
                           OPut(counter, kw, (IF OHas(counter, kw) THEN OGet(counter, kw) ELSE 0) + 1))

\* current_keyword_titles[keyword][:3]
SampleTitles(occurrences, keyword) ==
    LET hits == SelectSeq(occurrences, LAMBDA o : o.keyword = keyword)
    IN  Take([i \in DOMAIN hits |-> hits[i].title], 3)

MIN_NEW_COUNT == 5       \* `if current_count >= 5`

\* the alert level: 高 "high", 中 "medium"; a new topic has growth_rate inf
AlertLevel(is_new, growth_rate, threshold) ==
    IF is_new \/ RatGT(growth_rate, Rat(2 * threshold.n, threshold.d)) THEN "high" ELSE "medium"

\* the viral entries in the order of current_keywords.items(); growth_rate is
\* reported rounded, and as 新话题 (is_new) for a keyword absent yesterday
RECURSIVE ViralEntries(_, _, _, _)
ViralEntries(current, previous, occurrences, threshold) ==
    IF current = <<>> THEN <<>>
    ELSE LET keyword        == Head(current).k
             current_count  == Head(current).v
             previous_count == IF OHas(previous, keyword) THEN OGet(previous, keyword) ELSE 0
             is_new         == previous_count = 0
             growth_rate    == IF is_new THEN RatZero ELSE Rat(current_count, previous_count)
             is_viral       == IF is_new THEN current_count >= MIN_NEW_COUNT
                               ELSE RatGE(growth_rate, threshold)
         IN  (IF is_viral
              THEN <<[keyword |-> keyword, current_count |-> current_count,
                      previous_count |-> previous_count, is_new |-> is_new,
                      growth_rate |-> Round2(growth_rate),
                      sample_titles |-> SampleTitles(occurrences, keyword),
                      alert_level |-> AlertLevel(is_new, growth_rate, threshold)]>>
              ELSE <<>>)
             \o ViralEntries(Tail(current), previous, occurrences, threshold)

\* `key=lambda x: x["current_count"] if x["growth_rate"] == "新话题" else x["growth_rate"]`
ViralSortKey(item) == IF item.is_new THEN Rat(item.current_count, 1) ELSE item.growth_rate

\* AnalyticsTools.detect_viral_topics
DetectViralTopics(threshold, time_window) ==
    IF RatGT(RatOne, threshold)
    THEN /\ ret' = [op |-> "detect_viral", threshold |-> threshold, time_window |-> time_window,
                    at |-> now, success |-> FALSE, error |-> "INVALID_PARAMETER"]
         /\ UNCHANGED <<now, cache, timestamps, evicted, fs, origin>>
         /\ UNCHANGED singletonVars
    ELSE \E today \in {read_all_titles_for_date(Store, fs, now, NoDate, <<>>)} :
         IF today.raised
         THEN /\ StoreBecomes(today.st)
              /\ ret' = [op |-> "detect_viral", threshold |-> threshold, time_window |-> time_window,
                         at |-> now, success |-> FALSE, error |-> "DATA_NOT_FOUND"]
              /\ UNCHANGED <<now, evicted, fs>>
              /\ UNCHANGED singletonVars
         ELSE \E yesterday \in {read_all_titles_for_date(today.st, fs, now, now - DayLen, <<>>)} :
              \E occurrences \in {KeywordOccurrences(IndexEntries(today.value.titles, today.value.names))} :
              \E current \in {CountKeywords(occurrences, <<>>)} :
              \E previous \in {IF yesterday.raised THEN <<>>
                               ELSE CountKeywords(KeywordOccurrences(
                                        IndexEntries(yesterday.value.titles, yesterday.value.names)), <<>>)} :
              \E found \in {ViralEntries(current, previous, occurrences, threshold)} :
              \E viral_topics \in {SortDesc(found, [i \in DOMAIN found |-> ViralSortKey(found[i])])} :
                 /\ StoreBecomes(yesterday.st)
                 /\ ret' = [op |-> "detect_viral", threshold |-> threshold, time_window |-> time_window,
                            at |-> now, success |-> TRUE, error |-> "",
                            viral_topics |-> viral_topics,
                            total_detected |-> Len(viral_topics),
                            current |-> current, previous |-> previous]
                 /\ UNCHANGED <<now, evicted, fs>>
                 /\ UNCHANGED singletonVars

(***************************************************************************)
(* Viral detection around midnight over two days of snapshots              *)
(***************************************************************************)
TitleAbAb == <<"a", "b", " ", "a", "b">>
TitleAbBa == <<"a", "b", " ", "b", "a">>
TitleBaBa == <<"b", "a", " ", "b", "a">>
TitleBa == <<"b", "a">>
TitleLowerAb == <<"a", "b">>

\* today: "ab" five times and "ba" six times over two platforms
FileSurge == [ok |-> TRUE, sections |-> <<
                [id |-> "p1", name |-> "P1", lines |-> << Line(1, TitleAbAb, "", ""),
                                                           Line(2, TitleAbBa, "", ""),
                                                           Line(3, TitleBaBa, "", "") >>],
                [id |-> "p2", name |-> "P2", lines |-> << Line(1, TitleAbBa, "", ""),
                                                           Line(2, TitleLowerAb, "", ""),
                                                           Line(3, TitleBaBa, "", "") >>] >>]

\* "ab" once and "ba" once
FileQuiet == [ok |-> TRUE, sections |-> <<
                [id |-> "p1", name |-> "P1", lines |-> << Line(1, TitleAbBa, "", "") >>] >>]

\* "ba" once
FileBaOnce == [ok |-> TRUE, sections |-> <<
                [id |-> "p1", name |-> "P1", lines |-> << Line(1, TitleBa, "", "") >>] >>]

\* "ba" three times
FileBaThrice == [ok |-> TRUE, sections |-> <<
                [id |-> "p1", name |-> "P1", lines |-> << Line(1, TitleBa, "", ""),
                                                           Line(2, TitleBaBa, "", "") >>] >>]

ViralFolders ==
    {MissingFolder} \cup
    {[exists |-> TRUE, files |-> Stamped(<<f>>, 0)] : f \in {FileSurge, FileQuiet, FileBaOnce, FileBaThrice}}

ViralThresholds == {Rat(1, 2), Rat(1, 1), Rat(5, 2), Rat(3, 1)}

InitViral ==
    /\ now = StartTime
    /\ cache = EmptyDict
    /\ timestamps = EmptyDict
    /\ ret = [op |-> "init"]
    /\ evicted = EmptyDict
    /\ SingletonIdle
    /\ CallersIdle
    /\ fs \in [{DateOf(StartTime) - 1, DateOf(StartTime)} -> ViralFolders]
    /\ origin = EmptyDict

NextViral ==
    \/ Elapse
    \/ \E th \in ViralThresholds : DetectViralTopics(th, 24)

SpecViral == InitViral /\ [][NextViral]_vars

(***************************************************************************)
(* Day folders whose files repeat a title inside one file                  *)
(***************************************************************************)

\* one section with the same title on two lines
FileRepeat == [ok |-> TRUE, sections |-> <<
                [id |-> "p1", name |-> "P1", lines |-> << Line(1, TitleAb, "u1", ""),
                                                           Line(4, TitleAb, "u4", ""),
                                                           Line(2, TitleBb, "", "") >>] >>]

\* two sections with the same platform id
FileTwice == [ok |-> TRUE, sections |-> <<
                [id |-> "p1", name |-> "P1", lines |-> << Line(5, TitleAb, "", "") >>],
                [id |-> "p1", name |-> "P1", lines |-> << Line(6, TitleAb, "", "") >>] >>]

RepeatFolders ==
    {MissingFolder} \cup
    {[exists |-> TRUE, files |-> Stamped(q, 0)] : q \in SeqsUpTo({FileA, FileRepeat, FileTwice}, MaxFiles)}

InitRepeat ==
    /\ now = StartTime
    /\ cache = EmptyDict
    /\ timestamps = EmptyDict
    /\ ret = [op |-> "init"]
    /\ evicted = EmptyDict
    /\ SingletonIdle
    /\ CallersIdle
    /\ \E f \in RepeatFolders : fs = [d \in {DateOf(StartTime)} |-> f]
    /\ origin = EmptyDict

NextRepeat ==
    \E date \in {NoDate, StartTime}, p \in PlatformFilters : ReadAllTitles(date, p)

SpecRepeat == InitRepeat /\ [][NextRepeat]_vars

(***************************************************************************)
(* Topic prediction (analytics.py: predict_trending_topics)                *)
(***************************************************************************)

\* the keyword counter of one day's index
DayKeywordCounts(value) ==
    CountKeywords(KeywordOccurrences(IndexEntries(value.titles, value.names)), <<>>)

\* `for keyword, count in keywords_count.items(): keyword_trends[keyword].append(count)`
RECURSIVE AppendCounts(_, _)
AppendCounts(keyword_trends, counts) ==
    IF counts = <<>> THEN keyword_trends
    ELSE LET kw    == Head(counts).k
             sofar == IF OHas(keyword_trends, kw) THEN OGet(keyword_trends, kw) ELSE <<>>
         IN  AppendCounts(OPut(keyword_trends, kw, Append(sofar, Head(counts).v)), Tail(counts))

\* a day that raises DataNotFoundError is passed over
AppendDay(keyword_trends, read) ==
    IF read.raised THEN keyword_trends ELSE AppendCounts(keyword_trends, DayKeywordCounts(read.value))

NEW_TOPIC_MIN == 3        \* `if recent_value >= 3`

\* `all(trend_data[i] <= trend_data[i+1] for i in range(len(trend_data)-1))`
IsConsistent(trend_data) == \A i \in 1 .. (Len(trend_data) - 1) : trend_data[i] <= trend_data[i + 1]

\* 0.9 for a consistent series of three or more points, 0.7 for another of
\* that length, 0.6 for two points
Confidence(trend_data) ==
    IF Len(trend_data) >= 3
    THEN (IF IsConsistent(trend_data) THEN Rat(9, 10) ELSE Rat(7, 10))
    ELSE Rat(6, 10)

\* the predicted topics in the order of keyword_trends.items()
RECURSIVE PredictedTopics(_, _, _)
PredictedTopics(keyword_trends, occurrences, confidence_threshold) ==
    IF keyword_trends = <<>> THEN <<>>
    ELSE LET keyword        == Head(keyword_trends).k
             trend_data     == Head(keyword_trends).v
             n              == Len(trend_data)
             recent_value   == trend_data[n]
             previous_value == trend_data[n - 1]
             skipped        == n < 2 \/ (previous_value = 0 /\ recent_value < NEW_TOPIC_MIN)
             growth_rate    == IF previous_value = 0 THEN RatOne
                               ELSE Rat(recent_value - previous_value, previous_value)
             confidence     == Confidence(trend_data)
         IN  (IF ~skipped /\ RatGT(growth_rate, Rat(3, 10)) /\ RatGE(confidence, confidence_threshold)
              THEN <<[keyword |-> keyword, current_count |-> recent_value,
                      growth_rate |-> Round2(Rat(100 * growth_rate.n, growth_rate.d)),
                      confidence |-> confidence, trend_data |-> trend_data,
                      sample_titles |-> SampleTitles(occurrences, keyword)]>>
              ELSE <<>>)
             \o PredictedTopics(Tail(keyword_trends), occurrences, confidence_threshold)

\* `predicted_topics.sort(key=lambda x: (x["confidence"], x["growth_rate"]), reverse=True)`
PredictionBefore(x, y) ==
    \/ RatGT(x.confidence, y.confidence)
    \/ (~RatGT(y.confidence, x.confidence) /\ RatGT(x.growth_rate, y.growth_rate))

SortPredictions(items) ==
    LET Pos(i) == 1 + Cardinality({j \in DOMAIN items : PredictionBefore(items[j], items[i])})
                    + Cardinality({j \in 1..(i - 1) : /\ ~PredictionBefore(items[j], items[i])
                                                      /\ ~PredictionBefore(items[i], items[j])})
    IN  [p \in DOMAIN items |-> items[CHOOSE i \in DOMAIN items : Pos(i) = p]]

\* AnalyticsTools.predict_trending_topics; lookahead_hours only travels to the
\* result
PredictTrendingTopics(lookahead_hours, confidence_threshold) ==
    IF RatGT(RatZero, confidence_threshold) \/ RatGT(confidence_threshold, RatOne)
    THEN /\ ret' = [op |-> "predict", confidence_threshold |-> confidence_threshold,
                    at |-> now, success |-> FALSE, error |-> "INVALID_PARAMETER"]
         /\ UNCHANGED <<now, cache, timestamps, evicted, fs, origin>>
         /\ UNCHANGED singletonVars
    ELSE \E d3 \in {read_all_titles_for_date(Store, fs, now, now - 3 * DayLen, <<>>)} :
         \E d2 \in {read_all_titles_for_date(d3.st, fs, now, now - 2 * DayLen, <<>>)} :
         \E d1 \in {read_all_titles_for_date(d2.st, fs, now, now - DayLen, <<>>)} :
         \E today \in {read_all_titles_for_date(d1.st, fs, now, NoDate, <<>>)} :
            IF today.raised
            THEN /\ StoreBecomes(today.st)
                 /\ ret' = [op |-> "predict", confidence_threshold |-> confidence_threshold,
                            at |-> now, success |-> FALSE, error |-> "DATA_NOT_FOUND"]
                 /\ UNCHANGED <<now, evicted, fs>>
                 /\ UNCHANGED singletonVars
            ELSE \E history \in {AppendDay(AppendDay(AppendDay(<<>>, d3), d2), d1)} :
                 \E keyword_trends \in {AppendDay(history, today)} :
                 \E occurrences \in {KeywordOccurrences(IndexEntries(today.value.titles, today.value.names))} :
                 \E found \in {PredictedTopics(keyword_trends, occurrences, confidence_threshold)} :
                 \E predicted_topics \in {SortPredictions(found)} :
                    /\ StoreBecomes(today.st)
                    /\ ret' = [op |-> "predict", confidence_threshold |-> confidence_threshold,
                               at |-> now, success |-> TRUE, error |-> "",
                               predicted_topics |-> Take(predicted_topics, 20),
                               total_predicted |-> Len(predicted_topics),
                               lookahead_hours |-> lookahead_hours]
                    /\ UNCHANGED <<now, evicted, fs>>
                    /\ UNCHANGED singletonVars

(***************************************************************************)
(* Prediction over four days of snapshots                                  *)
(***************************************************************************)
PredictDays == (DefaultDaysBack - 3) .. DefaultDaysBack

PredictThresholds == {Rat(1, 2), Rat(7, 10), Rat(11, 10)}

InitPredict ==
    /\ now = TrendNow
    /\ cache = EmptyDict
    /\ timestamps = EmptyDict
    /\ ret = [op |-> "init"]
    /\ evicted = EmptyDict
    /\ SingletonIdle
    /\ CallersIdle
    /\ fs \in [PredictDays -> ViralFolders]
    /\ origin = EmptyDict

NextPredict == \E th \in PredictThresholds : PredictTrendingTopics(6, th)

SpecPredict == InitPredict /\ [][NextPredict]_vars

(***************************************************************************)
(* The trending-topics tool (data_query.py: get_trending_topics)           *)
(***************************************************************************)

\* `valid_modes = ["daily", "current", "incremental"]`
VALID_MODES == {"daily", "current", "incremental"}

\* validate_mode(mode, valid_modes, default): InvalidParameterError for a mode
\* outside valid_modes
validate_mode(mode, valid_modes) == mode \in valid_modes

\* DataQueryTools.get_trending_topics(top_n, mode): the validation, the call of
\* DataService.get_trending_topics and the conversion of what it raises; an
\* MCPError keeps its code, any other exception becomes INTERNAL_ERROR without
\* a suggestion
ToolGetTrendingTopics(top_n, mode) ==
    IF ~validate_mode(mode, VALID_MODES)
    THEN /\ ret' = [op |-> "tool_trending", mode |-> mode, at |-> now, success |-> FALSE,
                    code |-> "INVALID_PARAMETER", suggestion |-> TRUE, reads |-> 0, value |-> None]
         /\ UNCHANGED <<now, cache, timestamps, evicted, fs, origin>>
         /\ UNCHANGED singletonVars
    ELSE \E key \in {"trending_topics:" \o ToString(top_n) \o ":" \o mode} :
         \E g \in {StGet(Store, now, key, TTL_TRENDING)} :
            IF g.hit
            THEN /\ StoreBecomes(g.st)
                 /\ ret' = [op |-> "tool_trending", mode |-> mode, at |-> now, success |-> TRUE,
                            code |-> "", suggestion |-> FALSE, reads |-> 0, value |-> g.value]
                 /\ UNCHANGED <<now, evicted, fs>>
                 /\ UNCHANGED singletonVars
            ELSE \E r \in {read_all_titles_for_date(g.st, fs, now, NoDate, <<>>)} :
                 \E again \in {IF ~r.raised /\ mode = "current"
                               THEN read_all_titles_for_date(r.st, fs, now, NoDate, <<>>) ELSE r} :
                 \E hits \in {IF again.raised THEN <<>>
                              ELSE WordHits(IndexEntries(again.value.titles, again.value.names), FrequencyWords)} :
                 \E result \in {[topics |-> Topics(hits, top_n), generated_at |-> now, mode |-> mode,
                                 total_keywords |-> Cardinality({hits[i].word : i \in DOMAIN hits})]} :
                 \E code \in {IF again.raised THEN "DATA_NOT_FOUND"
                              ELSE IF mode \notin TrendingModes THEN "INTERNAL_ERROR" ELSE ""} :
                    /\ StoreBecomes(IF code # "" THEN again.st
                                    ELSE StSet(again.st, now, key, result, DateOf(now), <<>>))
                    /\ ret' = [op |-> "tool_trending", mode |-> mode, at |-> now, success |-> code = "",
                               code |-> code, suggestion |-> code = "DATA_NOT_FOUND",
                               reads |-> IF ~r.raised /\ mode = "current" THEN 2 ELSE 1,
                               value |-> IF code # "" THEN None ELSE result]
                    /\ UNCHANGED <<now, evicted, fs>>
                    /\ UNCHANGED singletonVars

ToolModes == {"daily", "current", "incremental", "hourly"}

InitTool ==
    /\ now = StartTime
    /\ cache = EmptyDict
    /\ timestamps = EmptyDict
    /\ ret = [op |-> "init"]
    /\ evicted = EmptyDict
    /\ SingletonIdle
    /\ CallersIdle
    /\ fs \in [{DateOf(StartTime), DateOf(StartTime) + 1} -> TrendFolders]
    /\ origin = EmptyDict

NextTool ==
    \/ Elapse
    \/ \E m \in ToolModes : ToolGetTrendingTopics(10, m)

SpecTool == InitTool /\ [][NextTool]_vars

(***************************************************************************)
(* Date expressions (utils/date_parser.py)                                 *)
(*                                                                         *)
(* An expression is a sequence of characters; a character outside ASCII is *)
(* written by its reading: "nian" (year), "yue" (month), "ri" (day, also   *)
(* Sunday), "tian" and "qian" (days ago), "shang" (last), "ben" (this),    *)
(* "zhou" (week), "yi" .. "liu" (one .. six).  A datetime is a number of   *)
(* clock units since the midnight that starts ordinal day 0, so that       *)
(* DateOf gives its proleptic Gregorian ordinal.                           *)
(***************************************************************************)
DigitChars == <<"0", "1", "2", "3", "4", "5", "6", "7", "8", "9">>

IsDigit(c) == \E v \in DOMAIN DigitChars : DigitChars[v] = c

DigitValue(c) == (CHOOSE v \in DOMAIN DigitChars : DigitChars[v] = c) - 1

IntOfLastDigit(digits) == IF digits = <<>> THEN 0 ELSE DigitValue(digits[Len(digits)])

\* int(group) of a run of digits
RECURSIVE IntOf(_)
IntOf(digits) ==
    IF digits = <<>> THEN 0
    ELSE 10 * IntOf(SubSeq(digits, 1, Len(digits) - 1)) + DigitValue(digits[Len(digits)])

Drop(s, n) == SubSeq(s, n + 1, Len(s))

\* the length of the leading run of digits that a greedy \d{1,max} takes
RECURSIVE LeadingDigits(_, _)
LeadingDigits(s, max) ==
    IF s = <<>> \/ max = 0 \/ ~IsDigit(Head(s)) THEN 0 ELSE 1 + LeadingDigits(Tail(s), max - 1)

\* the text after its leading whitespace
RECURSIVE DropSpaces(_)
DropSpaces(s) == IF s # <<>> /\ IsSpace(Head(s)) THEN DropSpaces(Tail(s)) ELSE s

\* str.strip()
RECURSIVE DropTrailingSpaces(_)
DropTrailingSpaces(s) ==
    IF s # <<>> /\ IsSpace(s[Len(s)]) THEN DropTrailingSpaces(SubSeq(s, 1, Len(s) - 1)) ELSE s

StripSpaces(s) == DropTrailingSpaces(DropSpaces(s))

NoMatch == [ok |-> FALSE]

\* CN_DATE_MAPPING and EN_DATE_MAPPING
DATE_MAPPING ==
    << [k |-> <<"t", "o", "d", "a", "y">>, v |-> 0],
       [k |-> <<"y", "e", "s", "t", "e", "r", "d", "a", "y">>, v |-> 1],
       [k |-> <<"t", "h", "e", " ", "d", "a", "y", " ", "b", "e", "f", "o", "r", "e", " ",
                "y", "e", "s", "t", "e", "r", "d", "a", "y">>, v |-> 2],
       [k |-> <<"t", "h", "r", "e", "e", " ", "d", "a", "y", "s", " ", "a", "g", "o">>, v |-> 3] >>

\* re.match(r'(\d+)\s*天前', q)
MatchCnDaysAgo(q) ==
    LET k == LeadingDigits(q, Len(q))
    IN  IF k >= 1 /\ StartsWith(DropSpaces(Drop(q, k)), <<"tian", "qian">>)
        THEN [ok |-> TRUE, days |-> IntOf(SubSeq(q, 1, k))]
        ELSE NoMatch

\* re.match(r'(\d+)\s*days?\s+ago', q)
MatchEnDaysAgo(q) ==
    LET k      == LeadingDigits(q, Len(q))
        word   == DropSpaces(Drop(q, k))
        plural == Drop(word, 3)
        gap    == IF StartsWith(plural, <<"s">>) THEN Tail(plural) ELSE plural
    IN  IF /\ k >= 1
           /\ StartsWith(word, <<"d", "a", "y">>)
           /\ gap # <<>> /\ IsSpace(Head(gap))
           /\ StartsWith(DropSpaces(gap), <<"a", "g", "o">>)
        THEN [ok |-> TRUE, days |-> IntOf(SubSeq(q, 1, k))]
        ELSE NoMatch

MAX_DAYS_AGO == 365       \* `if days > 365`

\* WEEKDAY_CN: the character after 周 and its weekday
WEEKDAY_CN == << [k |-> "yi", v |-> 0], [k |-> "er", v |-> 1], [k |-> "san", v |-> 2],
                 [k |-> "si", v |-> 3], [k |-> "wu", v |-> 4], [k |-> "liu", v |-> 5],
                 [k |-> "ri", v |-> 6], [k |-> "tian", v |-> 6] >>

\* WEEKDAY_EN
WEEKDAY_EN == << [k |-> <<"m", "o", "n", "d", "a", "y">>, v |-> 0],
                 [k |-> <<"t", "u", "e", "s", "d", "a", "y">>, v |-> 1],
                 [k |-> <<"w", "e", "d", "n", "e", "s", "d", "a", "y">>, v |-> 2],
                 [k |-> <<"t", "h", "u", "r", "s", "d", "a", "y">>, v |-> 3],
                 [k |-> <<"f", "r", "i", "d", "a", "y">>, v |-> 4],
                 [k |-> <<"s", "a", "t", "u", "r", "d", "a", "y">>, v |-> 5],
                 [k |-> <<"s", "u", "n", "d", "a", "y">>, v |-> 6] >>

\* re.match(r'(上|本)周([一二三四五六日天])', q)
MatchCnWeekday(q) ==
    IF /\ Len(q) >= 3
       /\ q[1] \in {"shang", "ben"}
       /\ q[2] = "zhou"
       /\ OHas(WEEKDAY_CN, q[3])
    THEN [ok |-> TRUE, target_weekday |-> OGet(WEEKDAY_CN, q[3]), is_last_week |-> q[1] = "shang"]
    ELSE NoMatch

\* re.match(r'(last|this)\s+(monday|...|sunday)', q)
MatchEnWeekday(q) ==
    LET gap  == Drop(q, 4)
        name == DropSpaces(gap)
        hits == SelectSeq(WEEKDAY_EN, LAMBDA e : StartsWith(name, e.k))
    IN  IF /\ (StartsWith(q, <<"l", "a", "s", "t">>) \/ StartsWith(q, <<"t", "h", "i", "s">>))
           /\ gap # <<>> /\ IsSpace(Head(gap))
           /\ hits # <<>>
        THEN [ok |-> TRUE, target_weekday |-> hits[1].v, is_last_week |-> q[1] = "l"]
        ELSE NoMatch

\* (\d{1,2})<sep>(\d{1,2})<close>: the month takes two digits when the
\* separator follows them and one digit when it follows that one; `close` is
\* the text that must follow the day
MatchMonthDay(q, sep, close) ==
    LET km == IF LeadingDigits(q, 2) = 2 /\ StartsWith(Drop(q, 2), <<sep>>) THEN 2
              ELSE IF LeadingDigits(q, 1) = 1 /\ StartsWith(Drop(q, 1), <<sep>>) THEN 1
              ELSE 0
        rest == Drop(q, km + 1)
        kd == IF LeadingDigits(rest, 2) = 2 /\ StartsWith(Drop(rest, 2), close) THEN 2
              ELSE IF LeadingDigits(rest, 1) = 1 /\ StartsWith(Drop(rest, 1), close) THEN 1
              ELSE 0
    IN  IF km > 0 /\ kd > 0
        THEN [ok |-> TRUE, month |-> IntOf(SubSeq(q, 1, km)), day |-> IntOf(SubSeq(rest, 1, kd))]
        ELSE NoMatch

\* (\d{4})<sep> at the start of the text
HasYear(q, sep) == LeadingDigits(q, 4) = 4 /\ StartsWith(Drop(q, 4), <<sep>>)

NoYear == 0

\* re.match(r'(\d{4})-(\d{1,2})-(\d{1,2})', q)
MatchIsoDate(q) ==
    LET md == MatchMonthDay(Drop(q, 5), "-", <<>>)
    IN  IF HasYear(q, "-") /\ md.ok
        THEN md @@ [year |-> IntOf(SubSeq(q, 1, 4))]
        ELSE NoMatch

\* re.match(r'(?:(\d{4})<ysep>)?(\d{1,2})<sep>(\d{1,2})<close>', q): the year
\* group is taken when the rest matches after it, and left out otherwise
MatchOptionalYearDate(q, ysep, sep, close) ==
    LET with    == MatchMonthDay(Drop(q, 5), sep, close)
        without == MatchMonthDay(q, sep, close)
    IN  IF HasYear(q, ysep) /\ with.ok THEN with @@ [year |-> IntOf(SubSeq(q, 1, 4))]
        ELSE IF without.ok THEN without @@ [year |-> NoYear]
        ELSE NoMatch

\* datetime: the calendar
IsLeap(year) == year % 4 = 0 /\ (year % 100 # 0 \/ year % 400 = 0)

DaysInMonthAlways31(year, month) == 31

DaysInMonth(year, month) ==
    IF month = 2 THEN (IF IsLeap(year) THEN 29 ELSE 28)
    ELSE IF month \in {4, 6, 9, 11} THEN 30 ELSE 31

DaysBeforeYear(year) ==
    LET y == year - 1 IN y * 365 + y \div 4 - y \div 100 + y \div 400

RECURSIVE DaysBeforeMonth(_, _)
DaysBeforeMonth(year, month) ==
    IF month = 1 THEN 0 ELSE DaysBeforeMonth(year, month - 1) + DaysInMonth(year, month - 1)

\* date.toordinal()
Ordinal(year, month, day) == DaysBeforeYear(year) + DaysBeforeMonth(year, month) + day

MINYEAR == 1
MAXYEAR == 9999

\* datetime(year, month, day): ValueError outside the calendar
ValidDate(year, month, day) ==
    /\ year \in MINYEAR .. MAXYEAR
    /\ month \in 1 .. 12
    /\ day \in 1 .. DaysInMonth(year, month)

\* date.weekday(): ordinal 1 is a Monday
Weekday(ordinal) == (ordinal + 6) % 7

\* datetime.year and datetime.month of an instant of the years of the model
YearOf(dt) ==
    CHOOSE y \in MINYEAR .. MAXYEAR : DaysBeforeYear(y) < DateOf(dt) /\ DateOf(dt) <= DaysBeforeYear(y + 1)

MonthOf(dt) ==
    LET y == YearOf(dt)
    IN  CHOOSE m \in 1 .. 12 : /\ Ordinal(y, m, 1) <= DateOf(dt)
                               /\ DateOf(dt) < Ordinal(y, m, 1) + DaysInMonth(y, m)

\* DateParser._get_date_by_weekday with datetime.now() = t
get_date_by_weekday(target_weekday, is_last_week, t) ==
    LET current_weekday == Weekday(DateOf(t))
        days_diff == IF is_last_week THEN current_weekday - target_weekday + 7
                     ELSE IF current_weekday - target_weekday < 0
                     THEN current_weekday - target_weekday + 7
                     ELSE current_weekday - target_weekday
    IN  t - days_diff * DayLen

Resolved(step, value) == [ok |-> TRUE, step |-> step, value |-> value, error |-> ""]

Rejected(step) == [ok |-> FALSE, step |-> step, value |-> NoDate, error |-> "INVALID_PARAMETER"]

\* datetime(year, month, day) inside `try ... except ValueError`
DateOrRejected(step, year, month, day) ==
    IF ValidDate(year, month, day)
    THEN Resolved(step, Ordinal(year, month, day) * DayLen)
    ELSE Rejected(step)

\* the year of a date written without one: the current year, the year before
\* for a month after the current month
DefaultYear(month, t) == IF month > MonthOf(t) THEN YearOf(t) - 1 ELSE YearOf(t)

\* DateParser.parse_date_query(date_query) with datetime.now() = t; `step` is
\* the numbered step of the code that produced the outcome
parse_date_query(date_query, t) ==
    LET q       == Lower(StripSpaces(date_query))
        cn_days == MatchCnDaysAgo(q)
        en_days == MatchEnDaysAgo(q)
        cn_week == MatchCnWeekday(q)
        en_week == MatchEnWeekday(q)
        iso     == MatchIsoDate(q)
        cn_date == MatchOptionalYearDate(q, "nian", "yue", <<"ri">>)
        slash   == MatchOptionalYearDate(q, "/", "/", <<>>)
    IN  IF date_query = <<>> THEN Rejected(0)
        ELSE IF OHas(DATE_MAPPING, q) THEN Resolved(1, t - OGet(DATE_MAPPING, q) * DayLen)
        ELSE IF cn_days.ok
        THEN (IF cn_days.days > MAX_DAYS_AGO THEN Rejected(3) ELSE Resolved(3, t - cn_days.days * DayLen))
        ELSE IF en_days.ok
        THEN (IF en_days.days > MAX_DAYS_AGO THEN Rejected(3) ELSE Resolved(3, t - en_days.days * DayLen))
        ELSE IF cn_week.ok
        THEN Resolved(4, get_date_by_weekday(cn_week.target_weekday, cn_week.is_last_week, t))
        ELSE IF en_week.ok
        THEN Resolved(5, get_date_by_weekday(en_week.target_weekday, en_week.is_last_week, t))
        ELSE IF iso.ok THEN DateOrRejected(6, iso.year, iso.month, iso.day)
        ELSE IF cn_date.ok
        THEN DateOrRejected(7, IF cn_date.year = NoYear THEN DefaultYear(cn_date.month, t) ELSE cn_date.year,
                            cn_date.month, cn_date.day)
        ELSE IF slash.ok
        THEN DateOrRejected(8, IF slash.year = NoYear THEN DefaultYear(slash.month, t) ELSE slash.year,
                            slash.month, slash.day)
        ELSE Rejected(9)

\* a caller resolves the expression it holds
ParseDateQuery ==
    /\ ret.op = "date_input"
    /\ \E r \in {parse_date_query(ret.query, now)} :
          ret' = [op |-> "parse_date", input |-> ret, at |-> now,
                  ok |-> r.ok, step |-> r.step, value |-> r.value, error |-> r.error]
    /\ UNCHANGED <<now, cache, timestamps, evicted, fs, origin>>
    /\ UNCHANGED singletonVars

(***************************************************************************)
(* Date expressions resolved at several instants                           *)
(***************************************************************************)

\* str(n)
RECURSIVE Decimal(_)
Decimal(n) == IF n < 10 THEN <<DigitChars[n + 1]>> ELSE Decimal(n \div 10) \o <<DigitChars[(n % 10) + 1]>>

\* n written with at least `width` digits
ZeroPadded(n, width) ==
    IF Len(Decimal(n)) >= width THEN Decimal(n)
    ELSE [i \in 1 .. (width - Len(Decimal(n))) |-> "0"] \o Decimal(n)

WordToday == <<"t", "o", "d", "a", "y">>
WordYesterday == <<"y", "e", "s", "t", "e", "r", "d", "a", "y">>
WordDaysAgo == <<" ", "d", "a", "y", "s", " ", "a", "g", "o">>
WordDayAgo == <<"d", "a", "y", " ", " ", "a", "g", "o", " ">>
WordLast == <<"l", "a", "s", "t", " ">>
WordThis == <<" ", "t", "h", "i", "s", " ", " ">>

\* the seven days from Monday 2025-10-06, at 08:20, and the midnight that
\* starts 2024-03-01
DateNows == {Ordinal(2025, 10, d) * DayLen + 100 : d \in 6 .. 12} \cup {Ordinal(2024, 3, 1) * DayLen}

DaysAgoValues == {0, 1, 3, 7, 365, 366, 1000}

IsoYears == {1900, 2000, 2024, 2025}
IsoMonths == {0, 1, 2, 4, 12, 13}
IsoDays == {0, 1, 28, 29, 30, 31, 32}

DateInput(kind, query, a, b, c) == [op |-> "date_input", kind |-> kind, query |-> query, a |-> a, b |-> b, c |-> c]

\* the expressions: kind, text and the numbers the text was written from
DateInputs ==
    {DateInput("fixed", WordToday, 0, 0, 0), DateInput("fixed", WordYesterday, 1, 0, 0),
     DateInput("other", <<>>, 0, 0, 0), DateInput("other", <<" ">>, 0, 0, 0),
     DateInput("other", <<"s", "o", "o", "n">>, 0, 0, 0)}
    \cup {DateInput("days_ago", Decimal(n) \o w, n, 0, 0) : n \in DaysAgoValues, w \in {WordDaysAgo, WordDayAgo}}
    \cup {DateInput("days_ago", Decimal(n) \o <<"tian", "qian">>, n, 0, 0) : n \in DaysAgoValues}
    \cup {DateInput("weekday", WordLast \o WEEKDAY_EN[w].k, 1, WEEKDAY_EN[w].v, 0) : w \in DOMAIN WEEKDAY_EN}
    \cup {DateInput("weekday", WordThis \o WEEKDAY_EN[w].k, 0, WEEKDAY_EN[w].v, 0) : w \in DOMAIN WEEKDAY_EN}
    \cup {DateInput("weekday", <<"shang", "zhou", WEEKDAY_CN[w].k>>, 1, WEEKDAY_CN[w].v, 0) : w \in DOMAIN WEEKDAY_CN}
    \cup {DateInput("weekday", <<"ben", "zhou", WEEKDAY_CN[w].k>>, 0, WEEKDAY_CN[w].v, 0) : w \in DOMAIN WEEKDAY_CN}
    \cup {DateInput("iso", Decimal(y) \o <<"-">> \o ZeroPadded(m, width) \o <<"-">> \o ZeroPadded(d, width), y, m, d) :
            y \in IsoYears, m \in IsoMonths, d \in IsoDays, width \in {1, 2}}
    \cup {DateInput("slash", Decimal(y) \o <<"/">> \o Decimal(m) \o <<"/">> \o Decimal(d), y, m, d) :
            y \in {2025}, m \in {2, 13}, d \in {1, 29}}
    \cup {DateInput("slash", Decimal(m) \o <<"/">> \o Decimal(d), NoYear, m, d) : m \in {2, 11}, d \in {1, 29}}
    \cup {DateInput("cn_date", Decimal(m) \o <<"yue">> \o Decimal(d) \o <<"ri">>, NoYear, m, d) : m \in {2, 11}, d \in {1, 29}}
    \cup {DateInput("cn_date", Decimal(y) \o <<"nian">> \o Decimal(m) \o <<"yue">> \o Decimal(d) \o <<"ri">>, y, m, d) :
            y \in {2024}, m \in {2}, d \in {29, 30}}

InitDate ==
    /\ now \in DateNows
    /\ cache = EmptyDict
    /\ timestamps = EmptyDict
    /\ ret \in DateInputs
    /\ evicted = EmptyDict
    /\ SingletonIdle
    /\ CallersIdle
    /\ fs = [d \in {} |-> MissingFolder]
    /\ origin = EmptyDict

NextDate == ParseDateQuery

SpecDate == InitDate /\ [][NextDate]_vars

(***************************************************************************)
(* Title lines of a snapshot file (parser_service.py: parse_txt_file)      *)
(***************************************************************************)

\* the positions where `sep` occurs in `s`
Occurrences(s, sep) == {i \in 1 .. (Len(s) - Len(sep) + 1) : SubSeq(s, i, i + Len(sep) - 1) = sep}

FirstOf(S) == CHOOSE i \in S : \A j \in S : i <= j

LastOf(S) == CHOOSE i \in S : \A j \in S : j <= i

\* re.sub(r'\s+', ' ', title).strip()
RECURSIVE CollapseSpaces(_)
CollapseSpaces(s) ==
    IF Len(s) < 2 THEN s
    ELSE IF IsSpace(s[1]) /\ IsSpace(s[2]) THEN CollapseSpaces(Tail(s))
    ELSE <<Head(s)>> \o CollapseSpaces(Tail(s))

\* ParserService.clean_title
clean_title(title) == StripSpaces(CollapseSpaces(title))

\* str.isdigit() over the characters of the model
IsDigitString(s) == s # <<>> /\ \A i \in DOMAIN s : IsDigit(s[i])

RankSeparator == <<".", " ">>
MobileTag == <<" ", "[", "M", "O", "B", "I", "L", "E", ":">>
UrlTag == <<" ", "[", "U", "R", "L", ":">>

\* `if ". " in title_part and title_part.split(". ")[0].isdigit():
\*      rank_str, title_part = title_part.split(". ", 1); rank = int(rank_str)`
SplitRank(title_part) ==
    LET occ == Occurrences(title_part, RankSeparator)
    IN  IF occ # {} /\ IsDigitString(SubSeq(title_part, 1, FirstOf(occ) - 1))
        THEN [rank |-> IntOf(SubSeq(title_part, 1, FirstOf(occ) - 1)),
              rest |-> Drop(title_part, FirstOf(occ) + 1)]
        ELSE [rank |-> NoRank, rest |-> title_part]

\* `if tag in title_part: title_part, part = title_part.rsplit(tag, 1);
\*      if part.endswith("]"): value = part[:-1]`
SplitTag(title_part, tag) ==
    LET occ  == Occurrences(title_part, tag)
        part == Drop(title_part, LastOf(occ) + Len(tag) - 1)
    IN  IF occ = {} THEN [rest |-> title_part, value |-> <<>>]
        ELSE [rest  |-> SubSeq(title_part, 1, LastOf(occ) - 1),
              value |-> IF part # <<>> /\ part[Len(part)] = "]"
                        THEN SubSeq(part, 1, Len(part) - 1) ELSE <<>>]

\* a parse that takes the [URL:...] tag before the [MOBILE:...] tag
ParseTitleLineUrlFirst(line) ==
    LET ranked == SplitRank(StripSpaces(line))
        url    == SplitTag(ranked.rest, UrlTag)
        mobile == SplitTag(url.rest, MobileTag)
    IN  [title |-> clean_title(StripSpaces(mobile.rest)),
         info  |-> [ranks |-> <<IF ranked.rank = NoRank THEN 1 ELSE ranked.rank>>,
                    url |-> url.value, mobileUrl |-> mobile.value]]

\* the body of `for line in lines[1:]` for a line that is not blank: the
\* title and the record stored under it
parse_title_line(line) ==
    LET ranked == SplitRank(StripSpaces(line))
        mobile == SplitTag(ranked.rest, MobileTag)
        url    == SplitTag(mobile.rest, UrlTag)
    IN  [title |-> clean_title(StripSpaces(url.rest)),
         info  |-> [ranks |-> <<IF ranked.rank = NoRank THEN 1 ELSE ranked.rank>>,
                    url |-> url.value, mobileUrl |-> mobile.value]]

\* the parser reads the line it holds
ParseTitleLine ==
    /\ ret.op = "line_input"
    /\ \E r \in {parse_title_line(ret.line)} :
          ret' = [op |-> "parse_line", input |-> ret, title |-> r.title, info |-> r.info]
    /\ UNCHANGED <<now, cache, timestamps, evicted, fs, origin>>
    /\ UNCHANGED singletonVars

(***************************************************************************)
(* Title lines written from a rank, a title and two addresses              *)
(***************************************************************************)
Absent == <<"absent">>

\* the titles as written and as clean_title leaves them
LineTitles == { [raw |-> <<"a", "b">>, clean |-> <<"a", "b">>],
                [raw |-> <<"a", " ", " ", "b">>, clean |-> <<"a", " ", "b">>],
                [raw |-> <<"a", ".", " ", "b">>, clean |-> <<"a", ".", " ", "b">>],
                [raw |-> <<"3", "d", ".", "b">>, clean |-> <<"3", "d", ".", "b">>],
                [raw |-> <<"[", "a", "]", " ", "1", "2">>, clean |-> <<"[", "a", "]", " ", "1", "2">>] }

LineRanks == {NoRank, 1, 12}

LineUrls == {Absent, <<"u">>, <<"h", ":", "/", "u", ".", "b">>, <<"u", "]">>}

LineMobiles == {Absent, <<"m">>, <<"h", ":", "/", "m", "[", "1", "]">>}

\* `rank. title [URL:u] [MOBILE:m]`, each part written when it is present
WriteLine(rank, title, url, mobile) ==
    (IF rank = NoRank THEN <<>> ELSE Decimal(rank) \o RankSeparator)
    \o title
    \o (IF url = Absent THEN <<>> ELSE UrlTag \o url \o <<"]">>)
    \o (IF mobile = Absent THEN <<>> ELSE MobileTag \o mobile \o <<"]">>)

\* the same parts with the two tags in the other order
WriteLineMobileFirst(rank, title, url, mobile) ==
    (IF rank = NoRank THEN <<>> ELSE Decimal(rank) \o RankSeparator)
    \o title
    \o (IF mobile = Absent THEN <<>> ELSE MobileTag \o mobile \o <<"]">>)
    \o (IF url = Absent THEN <<>> ELSE UrlTag \o url \o <<"]">>)

LineInput(kind, line, rank, title, url, mobile) ==
    [op |-> "line_input", kind |-> kind, line |-> line, rank |-> rank, title |-> title,
     url |-> url, mobile |-> mobile]

LineInputs ==
    {LineInput("url_mobile", pad \o WriteLine(r, t.raw, u, m), r, t.clean, u, m) :
        r \in LineRanks, t \in LineTitles, u \in LineUrls, m \in LineMobiles, pad \in {<<>>, <<" ">>}}
    \cup {LineInput("mobile_url", WriteLineMobileFirst(r, t.raw, u, m), r, t.clean, u, m) :
        r \in LineRanks, t \in LineTitles, u \in LineUrls \ {Absent}, m \in LineMobiles \ {Absent}}

InitLine ==
    /\ now = StartTime
    /\ cache = EmptyDict
    /\ timestamps = EmptyDict
    /\ ret \in LineInputs
    /\ evicted = EmptyDict
    /\ SingletonIdle
    /\ CallersIdle
    /\ fs = [d \in {} |-> MissingFolder]
    /\ origin = EmptyDict

NextLine == ParseTitleLine

SpecLine == InitLine /\ [][NextLine]_vars

(***************************************************************************)
(* Concurrent callers of read_all_titles_for_date.  A thread takes the     *)
(* cache lock inside CacheService.get and CacheService.set only; listing   *)
(* the folder and parsing its files are steps of their own, between which  *)
(* the other threads, the crawler and the other cache operations run.      *)
(***************************************************************************)
NumCallers == 2       \* threads that call read_all_titles_for_date

Callers == 1 .. NumCallers

FrameBecomes(t, frame) == frames' = [frames EXCEPT ![t] = frame]

\* the call: the cache key and the window of today's data
ReadCall(t, platform_ids) ==
    /\ frames[t].pc = "idle"
    /\ FrameBecomes(t, [pc |-> "get", day |-> DateOf(now), platforms |-> platform_ids,
                        key |-> ReadAllKey(DateOf(now), platform_ids), ttl |-> TTL_TODAY,
                        files |-> <<>>, i |-> 1, acc |-> EmptyIndex])
    /\ ret' = [op |-> "read_call", thread |-> t]
    /\ UNCHANGED <<now, cache, timestamps, evicted, fs, origin, lock>>
    /\ UNCHANGED instanceVars

\* `with self._lock:` in get and in set: the thread waits until the lock is free
LockAcquire(t) ==
    /\ frames[t].pc \in {"get", "set"}
    /\ lock = NoThread
    /\ lock' = t
    /\ FrameBecomes(t, [frames[t] EXCEPT !.pc = IF @ = "get" THEN "get_locked" ELSE "set_locked"])
    /\ ret' = [op |-> "lock", thread |-> t]
    /\ UNCHANGED <<now, cache, timestamps, evicted, fs, origin>>
    /\ UNCHANGED instanceVars

\* a get that leaves its `with` block without releasing the lock on a miss
GetLockedKeepsLock(t) ==
    /\ frames[t].pc = "get_locked"
    /\ \E g \in {StGet(Store, now, frames[t].key, frames[t].ttl)} :
          /\ StoreBecomes(g.st)
          /\ lock' = IF g.hit THEN NoThread ELSE lock
          /\ FrameBecomes(t, IF g.hit THEN IdleFrame ELSE [frames[t] EXCEPT !.pc = "list"])
          /\ ret' = [op |-> IF g.hit THEN "read_done" ELSE "read_miss", thread |-> t, hit |-> g.hit,
                     key |-> frames[t].key, value |-> g.value, overwrote |-> FALSE, replaced |-> None]
    /\ UNCHANGED <<now, evicted, fs>>
    /\ UNCHANGED instanceVars

\* the body of CacheService.get under the lock, and `if cached: return cached`
GetLocked(t) ==
    /\ frames[t].pc = "get_locked"
    /\ \E g \in {StGet(Store, now, frames[t].key, frames[t].ttl)} :
          /\ StoreBecomes(g.st)
          /\ lock' = NoThread
          /\ FrameBecomes(t, IF g.hit THEN IdleFrame ELSE [frames[t] EXCEPT !.pc = "list"])
          /\ ret' = [op |-> IF g.hit THEN "read_done" ELSE "read_miss", thread |-> t, hit |-> g.hit,
                     key |-> frames[t].key, value |-> g.value, overwrote |-> FALSE, replaced |-> None]
    /\ UNCHANGED <<now, evicted, fs>>
    /\ UNCHANGED instanceVars

\* `txt_dir.exists()` and `sorted(txt_dir.glob("*.txt"))`: DataNotFoundError
\* without a folder or without files
ListFiles(t) ==
    /\ frames[t].pc = "list"
    /\ \E folder \in {FolderOf(fs, frames[t].day)} :
          IF ~folder.exists \/ folder.files = <<>>
          THEN /\ FrameBecomes(t, IdleFrame)
               /\ ret' = [op |-> "read_raised", thread |-> t]
          ELSE /\ FrameBecomes(t, [frames[t] EXCEPT !.pc = "parse", !.files = folder.files])
               /\ ret' = [op |-> "read_listed", thread |-> t]
    /\ UNCHANGED <<now, cache, timestamps, evicted, fs, origin, lock>>
    /\ UNCHANGED instanceVars

\* one iteration of `for txt_file in txt_files`, and after the last one
\* `if not all_titles: raise DataNotFoundError`
ParseFile(t) ==
    /\ frames[t].pc = "parse"
    /\ \E acc \in {MergeFile(frames[t].acc, frames[t].files[frames[t].i], frames[t].i, frames[t].platforms)} :
          IF frames[t].i < Len(frames[t].files)
          THEN /\ FrameBecomes(t, [frames[t] EXCEPT !.acc = acc, !.i = @ + 1])
               /\ ret' = [op |-> "read_parsed", thread |-> t]
          ELSE IF acc.titles = <<>>
          THEN /\ FrameBecomes(t, IdleFrame)
               /\ ret' = [op |-> "read_raised", thread |-> t]
          ELSE /\ FrameBecomes(t, [frames[t] EXCEPT !.acc = acc, !.pc = "set"])
               /\ ret' = [op |-> "read_parsed", thread |-> t]
    /\ UNCHANGED <<now, cache, timestamps, evicted, fs, origin, lock>>
    /\ UNCHANGED instanceVars

\* the body of CacheService.set under the lock, and `return result`
SetLocked(t) ==
    /\ frames[t].pc = "set_locked"
    /\ StoreBecomes(StSet(Store, now, frames[t].key, frames[t].acc, frames[t].day, frames[t].platforms))
    /\ lock' = NoThread
    /\ FrameBecomes(t, IdleFrame)
    /\ ret' = [op |-> "read_done", thread |-> t, hit |-> FALSE, key |-> frames[t].key,
               value |-> frames[t].acc, overwrote |-> frames[t].key \in DOMAIN cache,
               replaced |-> IF frames[t].key \in DOMAIN cache THEN cache[frames[t].key] ELSE None]
    /\ UNCHANGED <<now, evicted, fs>>
    /\ UNCHANGED instanceVars

\* another thread's cache operation: it takes the lock, runs and releases it
WhenUnlocked(operation) == lock = NoThread /\ operation

InitCallers ==
    /\ now = StartTime
    /\ cache = EmptyDict
    /\ timestamps = EmptyDict
    /\ ret = [op |-> "init"]
    /\ evicted = EmptyDict
    /\ SingletonIdle
    /\ CallersIdle
    /\ fs \in [{DateOf(StartTime)} -> {MissingFolder,
                                       [exists |-> TRUE, files |-> Stamped(<<FileA>>, 0)],
                                       [exists |-> TRUE, files |-> Stamped(<<FileBad>>, 0)]}]
    /\ origin = EmptyDict

NextCallers ==
    \/ Crawl(FileB)
    \/ \E t \in Callers : ReadCall(t, <<>>)
    \/ \E t \in Callers : LockAcquire(t)
    \/ \E t \in Callers : GetLocked(t)
    \/ \E t \in Callers : ListFiles(t)
    \/ \E t \in Callers : ParseFile(t)
    \/ \E t \in Callers : SetLocked(t)
    \/ WhenUnlocked(CacheClear)
    \/ WhenUnlocked(CacheDelete(ReadAllKey(DateOf(StartTime), <<>>)))
    \/ WhenUnlocked(CacheCleanupExpired(1))

SpecCallers == InitCallers /\ [][NextCallers]_vars

\* MODEL-END

(***************************************************************************)
(* Properties                                                              *)
(***************************************************************************)

\* C1: get(key, ttl) returns the stored value exactly when the key is present
\* and now - storedAt < ttl, leaving the entry untouched; in every other case
\* it returns None, and an entry that was present with age >= ttl is gone
\* from both _cache and _timestamps after that same get.
C1_GetContract ==
    [][(ret'.op = "get" /\ ret' # ret) =>
         LET k == ret'.key
             w == ret'.ttl
         IN  IF k \in DOMAIN cache /\ now - timestamps[k] < w
             THEN /\ ret'.value = cache[k]
                  /\ cache' = cache
                  /\ timestamps' = timestamps
             ELSE /\ ret'.value = None
                  /\ k \notin DOMAIN cache'
                  /\ k \notin DOMAIN timestamps'
                  /\ \A j \in Keys \ {k} :
                        /\ (j \in DOMAIN cache') = (j \in DOMAIN cache)
                        /\ j \in DOMAIN cache => (cache'[j] = cache[j] /\ timestamps'[j] = timestamps[j])
      ]_vars

\* C1 witness: a get found a present entry whose age equals the window and removed it
C1_Witness ==
    /\ ret.op = "get"
    /\ ret.key \in DOMAIN evicted
    /\ ret.at - evicted[ret.key] = ret.ttl
    /\ ret.value = None
    /\ ret.key \notin DOMAIN cache

\* C2: one shared entry read with different windows: a get made while the
\* entry's age is below its window returns the value that was set; once a get
\* has found the entry expired, every later get of the key returns None
\* whatever its window, until the key is set again.
C2_SharedEntryWindows ==
    /\ (ret.op = "get" /\ ret.key \in DOMAIN cache /\ ret.at - timestamps[ret.key] < ret.ttl)
          => ret.value = cache[ret.key]
    /\ (ret.op = "get" /\ ret.key \in DOMAIN evicted)
          => (ret.value = None /\ ret.key \notin DOMAIN cache)

\* C2 witness: after the eviction, a get whose window is larger than the age
\* the evicted entry would have still returns None
C2_Witness ==
    /\ ret.op = "get"
    /\ ret.key \in DOMAIN evicted
    /\ ret.at - evicted[ret.key] < ret.ttl
    /\ ret.value = None

\* C8: all callers of get_cache() hold the same CacheService, so a key set
\* through one caller's reference is in the store every other caller reads.
C8_OneStorePerProcess ==
    \A t1, t2 \in Threads :
        (ref[t1] # NoInstance /\ ref[t2] # NoInstance) =>
            /\ ref[t1] = ref[t2]
            /\ stores[ref[t1]] = stores[ref[t2]]

\* the sections of file that parse_txt_file keeps for platform id pid
SectionsOf(file, pid) ==
    SelectSeq(file.sections, LAMBDA sec : sec.id = pid /\ Len(sec.lines) > 0)

\* file, once parsed, holds title for platform pid
Contains(file, pid, title) ==
    /\ file.ok
    /\ SectionsOf(file, pid) # <<>>
    /\ LET sec == SectionsOf(file, pid)[Len(SectionsOf(file, pid))]
       IN  \E i \in DOMAIN sec.lines : sec.lines[i].title = title

\* the rank the file gives the title
RankIn(file, pid, title) ==
    LET sec  == SectionsOf(file, pid)[Len(SectionsOf(file, pid))]
        last == CHOOSE i \in DOMAIN sec.lines :
                   /\ sec.lines[i].title = title
                   /\ \A j \in DOMAIN sec.lines : sec.lines[j].title = title => j <= i
    IN  IF sec.lines[last].rank = NoRank THEN 1 ELSE sec.lines[last].rank

\* one rank per file that holds the title, in the order of the files
RECURSIVE RanksInFileOrder(_, _, _)
RanksInFileOrder(files, pid, title) ==
    IF files = <<>> THEN <<>>
    ELSE (IF Contains(Head(files), pid, title) THEN <<RankIn(Head(files), pid, title)>> ELSE <<>>)
         \o RanksInFileOrder(Tail(files), pid, title)

AllTitles == {TitleAb, TitleBb}
AllPlatforms == {PlatformOrder[i] : i \in DOMAIN PlatformOrder}

IndexHas(index, pid, title) == OHas(index.titles, pid) /\ OHas(OGet(index.titles, pid), title)

\* C5: merging the files of a day in ascending name order concatenates the
\* ranks of every (platform, title): the rank list is the title's rank in each
\* file that holds it, in file order, neither deduplicated nor sorted, and its
\* length is the number of files that hold the title.
C5_RanksConcatenated ==
    (ret.op = "read_all" /\ ~ret.raised) =>
        \A pid \in AllPlatforms, title \in AllTitles :
            LET files    == FolderOf(fs, ret.day).files
                expected == RanksInFileOrder(files, pid, title)
            IN  IF expected = <<>> \/ FilteredOut(ret.platforms, pid)
                THEN ~IndexHas(ret.value, pid, title)
                ELSE /\ IndexHas(ret.value, pid, title)
                     /\ OGet(OGet(ret.value.titles, pid), title).ranks = expected
                     /\ Len(OGet(OGet(ret.value.titles, pid), title).ranks)
                           = Cardinality({i \in DOMAIN files : Contains(files[i], pid, title)})

\* C5 witness: the title is at rank 7 in the earlier file and at rank 3 in the later one
C5_Witness ==
    /\ ret.op = "read_all"
    /\ ~ret.raised
    /\ IndexHas(ret.value, "p1", TitleAb)
    /\ OGet(OGet(ret.value.titles, "p1"), TitleAb).ranks = <<7, 3>>

\* C10: a file whose parse raises contributes no title, display name or
\* timestamp while every other file is merged; the read raises DataNotFound
\* only for a missing folder, a folder without files, or when no title is
\* left after merging and filtering, and then stores nothing.
C10_FailedFileSkipped ==
    (ret.op = "read_all") =>
        LET folder == FolderOf(fs, ret.day)
            files  == folder.files
            good   == {i \in DOMAIN files : files[i].ok}
            left   == {<<pid, title>> \in AllPlatforms \X AllTitles :
                          /\ ~FilteredOut(ret.platforms, pid)
                          /\ \E i \in good : Contains(files[i], pid, title)}
        IN  /\ ret.raised <=> (~folder.exists \/ files = <<>> \/ left = {})
            /\ ret.raised => ret.key \notin DOMAIN cache
            /\ ~ret.raised =>
                  /\ DOMAIN ret.value.stamps = good
                  /\ DOMAIN ret.value.names =
                        {pid \in AllPlatforms : \E i \in good : SectionsOf(files[i], pid) # <<>>}
                  /\ \A pid \in AllPlatforms, title \in AllTitles :
                        IndexHas(ret.value, pid, title) <=> <<pid, title>> \in left

\* C10 witness: a folder with a failing file and a good one was read without an error
C10_Witness ==
    /\ ret.op = "read_all"
    /\ ~ret.raised
    /\ ~ret.hit
    /\ \E i, j \in DOMAIN FolderOf(fs, ret.day).files :
          /\ ~FolderOf(fs, ret.day).files[i].ok
          /\ FolderOf(fs, ret.day).files[j].ok
          /\ i < j

\* the days a range operation read, in the order it read them
ScannedDays == [i \in DOMAIN ret.reads |-> ret.reads[i].day]

\* the calendar days from the day of start through the day of end, ascending
DaysThrough(start, end) == [i \in 1..(DateOf(end) - DateOf(start) + 1) |-> DateOf(start) + i - 1]

RangeOps == {"search_unified", "search_history", "search_by_keyword"}

\* C6: a range operation that ran over start..end with start's date <= end's
\* date has read each calendar date from start's date through end's date
\* exactly once, in ascending order, whatever the times of day of start and end
C6_RangeInclusive ==
    (/\ ret.op \in RangeOps
     /\ ret.error \notin {"INVALID_PARAMETER", "NO_DATA_AVAILABLE"}
     /\ DateOf(ret.start) <= DateOf(ret.end))
    => ScannedDays = DaysThrough(ret.start, ret.end)

\* C9: a unified search (keyword, fuzzy, entity) or a keyword search whose
\* range produced zero matches returns success with an empty result list and
\* no error
C9_ZeroMatchesSucceed ==
    (/\ ret.op \in {"search_unified", "search_by_keyword"}
     /\ ret.error # "NO_DATA_AVAILABLE"
     /\ ret.total_found = 0)
    => (ret.success /\ ret.results = <<>> /\ ret.error = "")

\* C3: a day index in the cache is the index the parse produced when it was
\* stored: no later operation has changed a rank list, url or title of it, and
\* a cache hit returns that content
C3_DayIndexNeverMutated ==
    /\ \A k \in DOMAIN cache \cap DOMAIN origin : cache[k] = origin[k].value
    /\ (ret.op = "read_all" /\ ret.hit) => ret.value = origin[ret.key].value

QueryOps == {"latest_news", "news_by_date", "trending_topics"}

\* C4: a value returned from the cache (day index, latest news, news by date,
\* trending topics) was computed for the calendar date and the platform filter
\* of the request that receives it
C4_KeyEncodesScope ==
    (ret.op \in QueryOps \cup {"read_all"} /\ ret.hit) =>
        /\ origin[ret.key].day = ret.day
        /\ SeqSet(origin[ret.key].platforms) = SeqSet(ret.platforms)

\* C7: every cache read whose value is derived from the snapshot files of the
\* current day (day index of today, latest news, news by date for today,
\* trending topics) is made with the 900 s window
C7_TodayUsesShortWindow ==
    /\ ret.op \in QueryOps => \A i \in DOMAIN ret.gets : ret.gets[i].today => ret.gets[i].ttl = TTL_TODAY
    /\ ret.op = "read_all" => (ret.today => ret.ttl = TTL_TODAY)

\* the display name file gives to platform pid
NameIn(file, pid) == parse_txt_file(file).names[pid]

\* file parses and names platform pid
Names(file, pid) == file.ok /\ pid \in DOMAIN parse_txt_file(file).names

\* C11: the display name of a platform id in a merged day index is the one
\* given by the earliest file, in file-name order, that contains the id
C11_EarliestNameKept ==
    (ret.op = "read_all" /\ ~ret.raised) =>
        LET files == FolderOf(fs, ret.day).files
        IN  \A pid \in DOMAIN ret.value.names :
               \E i \in DOMAIN files :
                  /\ Names(files[i], pid)
                  /\ \A j \in 1..(i - 1) : ~Names(files[j], pid)
                  /\ ret.value.names[pid] = NameIn(files[i], pid)

\* the matches of a unified search in the order the scan found them: date
\* ascending, then platform iteration order, then title iteration order
FoundInOrder == ModeMatches(ScanEntries(ret.reads), ret.search_mode, ret.query, ret.threshold, ret.include_url)

\* item x comes before item y in the sorted list: a larger key, or the same
\* key and an earlier position i < j in the order found
SortsBefore(x, i, y, j, sort_by) ==
    \/ RatGT(SortKey(x, sort_by), SortKey(y, sort_by))
    \/ ~RatGT(SortKey(y, sort_by), SortKey(x, sort_by)) /\ i < j

\* C12: the unified search returns the first `limit` elements of the fully
\* sorted match list; total_found counts the matches before truncation,
\* returned_count = min(limit, total_found), and equal keys keep the order in
\* which the matches were found, for every sort_by
C12_SortThenTruncate ==
    (ret.op = "search_unified" /\ ret.success) =>
        LET all == FoundInOrder
            at(p) == CHOOSE i \in DOMAIN all : all[i] = ret.results[p]
        IN  /\ ret.total_found = Len(all)
            /\ ret.returned_count = Min(ret.limit, ret.total_found)
            /\ Len(ret.results) = ret.returned_count
            /\ \A p \in DOMAIN ret.results : \E i \in DOMAIN all : all[i] = ret.results[p]
            /\ \A p, q \in DOMAIN ret.results :
                  p < q => SortsBefore(all[at(p)], at(p), all[at(q)], at(q), ret.sort_by)
            /\ \A p \in DOMAIN ret.results, j \in DOMAIN all :
                  (\A q \in DOMAIN ret.results : at(q) # j)
                     => SortsBefore(all[at(p)], at(p), all[j], j, ret.sort_by)

\* C12 witness: a search truncated its matches and the key of the first
\* result is shared by a match that was cut off
C12_Witness ==
    /\ ret.op = "search_unified"
    /\ ret.success
    /\ ret.returned_count >= 1
    /\ ret.total_found > ret.returned_count
    /\ \E j \in DOMAIN FoundInOrder :
          /\ FoundInOrder[j] # ret.results[1]
          /\ ~RatGT(SortKey(ret.results[1], ret.sort_by), SortKey(FoundInOrder[j], ret.sort_by))

\* C13: with the threshold clamped to 1.0, _fuzzy_match reports a match only
\* when the lower-cased query is a substring of the lower-cased title
C13_ThresholdOneIsSubstring ==
    (ret.op = "fuzzy_match" /\ ret.threshold = RatOne /\ ret.match) =>
        IsSubstr(Lower(ret.query), Lower(ret.text))

\* C14: the keyword overlap of a related title is the number of reference
\* keywords found in the title over the number of reference keywords, and the
\* combined score is 0.7 * overlap + 0.3 * similarity
SharedOverReference(reference_text, title) ==
    Rat(Cardinality(SeqSet(extract_keywords(reference_text)) \cap SeqSet(extract_keywords(title))),
        Cardinality(SeqSet(extract_keywords(reference_text))))

C14_OverlapOverReference ==
    (ret.op = "related_score" /\ ret.success) =>
        \A i \in DOMAIN ret.results :
            LET ov  == SharedOverReference(ret.query, ret.text)
                sim == calculate_similarity(ret.query, ret.text)
            IN  /\ ret.results[i].keyword_overlap = Round4(ov)
                /\ ret.results[i].similarity_score =
                       Round4(Rat(7 * ov.n * sim.d + 3 * sim.n * ov.d, 10 * ov.d * sim.d))

\* r2 is r1 with one rank replaced by a lower (better) one
OneRankLowered(r1, r2) ==
    /\ Len(r1) = Len(r2)
    /\ \E i \in DOMAIN r1 : r2[i] < r1[i] /\ \A j \in DOMAIN r1 \ {i} : r2[j] = r1[j]

HighRanks(ranks) == Cardinality({i \in DOMAIN ranks : ranks[i] <= 5})

\* r2 has a higher proportion of ranks <= 5 than r1 (both non-empty)
HigherProportion(r1, r2) ==
    /\ r1 # <<>> /\ r2 # <<>>
    /\ HighRanks(r2) * Len(r1) > HighRanks(r1) * Len(r2)

\* the two records have the same average rank score
SameRankScore(r1, r2) ==
    SumRankScores(r1) * Len(r2) = SumRankScores(r2) * Len(r1)

DiskCount(day, topic) ==
    IF ~FolderOf(fs, day).exists THEN 0
    ELSE Cardinality({pt \in AllPlatforms \X AllTitles :
                         /\ \E i \in DOMAIN FolderOf(fs, day).files :
                                Contains(FolderOf(fs, day).files[i], pt[1], pt[2])
                         /\ IsSubstr(Lower(topic), Lower(pt[2]))})

\* C16: a trend analysis has one entry per calendar day of the range in
\* ascending order, a day without data has count 0, total_days is the number
\* of entries, and average_mentions is total_mentions / total_days (to two
\* decimals)
C16_OneEntryPerDay ==
    (ret.op = "topic_trend" /\ ret.success) =>
        /\ ret.total_days = DateOf(ret.end) - DateOf(ret.start) + 1
        /\ Len(ret.trend_data) = ret.total_days
        /\ \A i \in DOMAIN ret.trend_data :
              /\ ret.trend_data[i].date = DateOf(ret.start) + i - 1
              /\ ret.trend_data[i].count = DiskCount(ret.trend_data[i].date, ret.query)
              /\ ~FolderOf(fs, ret.trend_data[i].date).exists => ret.trend_data[i].count = 0
        /\ ret.total_mentions = SumSeq(CountsOf(ret.trend_data))
        /\ ret.average_mentions = Round2(Rat(ret.total_mentions, ret.total_days))

C16_Witness ==
    /\ ret.op = "topic_trend" /\ ret.success
    /\ ret.total_days = 2
    /\ ret.total_mentions = 3
    /\ \E i \in DOMAIN ret.trend_data : ~FolderOf(fs, ret.trend_data[i].date).exists

\* the positions of the last three days of a lifecycle series
LastThreeDays(series) == {i \in DOMAIN series : i > Len(series) - 3}

\* C17: the lifecycle stage is "rising" if the last three days sum to more
\* than the first three; else "declining" if the last-three sum is less than
\* half the first-three sum; else "bursting" if the day reported as peak_date
\* is one of the last three days; else "stable"
C17_StageByFirstRule ==
    (ret.op = "topic_lifecycle" /\ ret.success) =>
        LET counts == CountsOf(ret.lifecycle_data)
            recent == SumSeq(LastThree(counts))
            early  == SumSeq(FirstThree(counts))
        IN  ret.lifecycle_stage =
                IF recent > early THEN "rising"
                ELSE IF 2 * recent < early THEN "declining"
                ELSE IF \E i \in LastThreeDays(ret.lifecycle_data) :
                            ret.lifecycle_data[i].date = ret.peak_date THEN "bursting"
                ELSE "stable"

\* C18: a topic mentioned on exactly the first and the seventh day of a 7-day
\* range has active_days = 2 and is of type "flash" whenever the peak count is
\* greater than twice the average count of the range
C18_FlashOnDaysOneAndSeven ==
    (/\ ret.op = "topic_lifecycle" /\ ret.success
     /\ ret.total_days = 7
     /\ \A i \in DOMAIN ret.lifecycle_data : (ret.lifecycle_data[i].count > 0) = (i \in {1, 7})) =>
        /\ ret.active_days = 2
        /\ (ret.peak_count * ret.total_days > 2 * SumSeq(CountsOf(ret.lifecycle_data)))
                => ret.topic_type = "flash"

\* todayCount / yesterdayCount of a reported keyword that is not new
Growth(item) == Rat(item.current_count, item.previous_count)

\* C19: a viral keyword has alert level "high" exactly when its growth is at
\* least twice the threshold (a new keyword grows without bound), and "medium"
\* otherwise
C19_HighAtTwiceThreshold ==
    (ret.op = "detect_viral" /\ ret.success) =>
        \A i \in DOMAIN ret.viral_topics :
            LET item == ret.viral_topics[i]
                high == item.previous_count = 0
                          \/ RatGE(Growth(item), Rat(2 * ret.threshold.n, ret.threshold.d))
            IN  item.alert_level = IF high THEN "high" ELSE "medium"

\* C20: in the viral list every new keyword comes before every keyword with a
\* finite growth ratio, and the finite ratios are in non-increasing order
C20_NewKeywordsFirst ==
    (ret.op = "detect_viral" /\ ret.success) =>
        \A i, j \in DOMAIN ret.viral_topics :
            i < j =>
                LET a == ret.viral_topics[i]
                    b == ret.viral_topics[j]
                IN  /\ b.previous_count = 0 => a.previous_count = 0
                    /\ (a.previous_count > 0 /\ b.previous_count > 0) => RatGE(Growth(a), Growth(b))

\* C29: whenever _fuzzy_match reports a match for a fuzzy search, the score it
\* returns is at least the clamped threshold of the request
C29_ScoreAtLeastThreshold ==
    (ret.op = "fuzzy_match" /\ ret.match) => RatGE(ret.score, ret.threshold)

\* C30: for every range length the statistics of a trend analysis agree with
\* its series: peak_count is the maximum count of trend_data, peak_time is the
\* first date with that count, peak_count <= total_mentions, and peak_count is
\* 0 only when total_mentions is 0
C30_PeakMatchesSeries ==
    (ret.op = "topic_trend" /\ ret.success /\ ret.trend_data # <<>>) =>
        LET counts == CountsOf(ret.trend_data)
        IN  /\ ret.peak_count = MaxOf(counts)
            /\ ret.peak_time = ret.trend_data[PeakIndex(counts)].date
            /\ ret.peak_count <= ret.total_mentions
            /\ (ret.peak_count = 0) => (ret.total_mentions = 0)

\* the title lines of platform pid with the title in one file
LinesIn(file, pid, title) ==
    IF ~file.ok THEN 0
    ELSE Cardinality({sl \in (DOMAIN file.sections) \X (1..3) :
                         /\ file.sections[sl[1]].id = pid
                         /\ sl[2] \in DOMAIN file.sections[sl[1]].lines
                         /\ file.sections[sl[1]].lines[sl[2]].title = title})

RECURSIVE LinesInFiles(_, _, _)
LinesInFiles(files, pid, title) ==
    IF files = <<>> THEN 0
    ELSE LinesIn(Head(files), pid, title) + LinesInFiles(Tail(files), pid, title)

\* C28: the rank list of every (platform, title) of the day index is as long
\* as the number of title lines of the platform with that title over all files
\* of the day, repeats inside one file included
C28_EveryOccurrenceCounted ==
    (ret.op = "read_all" /\ ~ret.raised) =>
        \A pid \in AllPlatforms, title \in AllTitles :
            LET n == LinesInFiles(FolderOf(fs, ret.day).files, pid, title)
            IN  (~FilteredOut(ret.platforms, pid) /\ n > 0) =>
                    /\ IndexHas(ret.value, pid, title)
                    /\ Len(OGet(OGet(ret.value.titles, pid), title).ranks) = n

\* the keyword's count in the snapshots of the day `back` days before the call
KeywordCountOn(back, keyword) ==
    LET read   == read_all_titles_for_date([cache |-> EmptyDict, timestamps |-> EmptyDict, origin |-> EmptyDict],
                                           fs, ret.at, ret.at - back * DayLen, <<>>)
        counts == IF read.raised THEN <<>> ELSE DayKeywordCounts(read.value)
    IN  IF OHas(counts, keyword) THEN OGet(counts, keyword) ELSE 0

\* C21: every predicted topic's series ends with the keyword's count of today,
\* reported as current_count, preceded by its count of the preceding calendar
\* day; a keyword absent today is not reported with a positive current_count
C21_SeriesEndsTodayAfterYesterday ==
    (ret.op = "predict" /\ ret.success) =>
        \A i \in DOMAIN ret.predicted_topics :
            LET p == ret.predicted_topics[i]
                n == Len(p.trend_data)
            IN  /\ p.current_count = KeywordCountOn(0, p.keyword)
                /\ p.trend_data[n] = KeywordCountOn(0, p.keyword)
                /\ p.trend_data[n - 1] = KeywordCountOn(1, p.keyword)

\* C22: get_trending_topics called with a mode it cannot execute (any mode but
\* daily and current) fails with InvalidParameter, carries a suggestion and
\* has read no data
C22_UnknownModeRejectedAtBoundary ==
    (ret.op = "tool_trending" /\ ret.mode \notin TrendingModes) =>
        /\ ~ret.success
        /\ ret.code = "INVALID_PARAMETER"
        /\ ret.suggestion
        /\ ret.reads = 0

\* C23: "this W" is the most recent W walking back from today, 0 to 6 days
\* back; "last W" is the date 7 days before that one, 7 to 13 days back
C23_WeekdayWalksBack ==
    (ret.op = "parse_date" /\ ret.input.kind = "weekday") =>
        LET back == DateOf(ret.at) - DateOf(ret.value)
        IN  /\ ret.ok
            /\ Weekday(DateOf(ret.value)) = ret.input.b
            /\ IF ret.input.a = 1 THEN back \in 7 .. 13 ELSE back \in 0 .. 6

\* C24: "N days ago" plus N days is "today" for N up to 365, and "yesterday"
\* is "1 days ago"; for a larger N the expression fails with InvalidParameter
\* and gives no date
C24_DaysAgoPlusDaysIsToday ==
    /\ (ret.op = "parse_date" /\ ret.input.kind = "days_ago") =>
          IF ret.input.a <= 365
          THEN /\ ret.ok
               /\ ret.value + ret.input.a * DayLen = parse_date_query(WordToday, ret.at).value
          ELSE /\ ~ret.ok
               /\ ret.error = "INVALID_PARAMETER"
               /\ ret.value = NoDate
    /\ (ret.op = "parse_date" /\ ret.input.query = WordYesterday) =>
          /\ ret.ok
          /\ ret.value = parse_date_query(<<"1">> \o WordDaysAgo, ret.at).value

C24_Witness_Resolved ==
    /\ ret.op = "parse_date" /\ ret.input.kind = "days_ago"
    /\ ret.input.a = 365
    /\ ret.ok
    /\ DateOf(ret.value) = DateOf(ret.at) - 365

C24_Witness_TooLarge ==
    /\ ret.op = "parse_date" /\ ret.input.kind = "days_ago"
    /\ ret.input.a = 366
    /\ ~ret.ok

\* the days of a month of the Gregorian calendar
CalendarDays(year, month) ==
    LET leap == (year % 4 = 0 /\ year % 100 # 0) \/ year % 400 = 0
    IN  <<31, IF leap THEN 29 ELSE 28, 31, 30, 31, 30, 31, 31, 30, 31, 30, 31>>[month]

\* C25: an expression YYYY-M-D whose month or day is not a calendar value is
\* rejected by the ISO step with InvalidParameter and gives no date
C25_InvalidIsoDateRejected ==
    (/\ ret.op = "parse_date"
     /\ ret.input.kind = "iso"
     /\ (ret.input.b \notin 1 .. 12 \/ ret.input.c \notin 1 .. CalendarDays(ret.input.a, ret.input.b))) =>
        /\ ~ret.ok
        /\ ret.error = "INVALID_PARAMETER"
        /\ ret.value = NoDate
        /\ ret.step = 6

C25_Witness_FebruaryTwentyNine ==
    /\ ret.op = "parse_date"
    /\ ret.input.query = <<"2", "0", "2", "5", "-", "0", "2", "-", "2", "9">>
    /\ ~ret.ok
    /\ ret.step = 6

C25_Witness_MonthThirteen ==
    /\ ret.op = "parse_date"
    /\ ret.input.query = <<"2", "0", "2", "5", "-", "1", "3", "-", "0", "1">>
    /\ ~ret.ok

ValueOrEmpty(part) == IF part = Absent THEN <<>> ELSE part

\* C26: a line `rank. title [URL:u] [MOBILE:m]` gives the title without the
\* tags, url u and mobileUrl m; a tag that is not written leaves its field
\* empty; a line written without a rank gets ranks [1]
C26_TagsSeparatedRankDefaulted ==
    (ret.op = "parse_line" /\ ret.input.kind = "url_mobile") =>
        /\ ret.title = ret.input.title
        /\ Occurrences(ret.title, Tail(UrlTag)) = {}
        /\ Occurrences(ret.title, Tail(MobileTag)) = {}
        /\ ret.info.url = ValueOrEmpty(ret.input.url)
        /\ ret.info.mobileUrl = ValueOrEmpty(ret.input.mobile)
        /\ (ret.input.rank = NoRank) => (ret.info.ranks = <<1>>)

C26_Witness ==
    /\ ret.op = "parse_line" /\ ret.input.kind = "url_mobile"
    /\ ret.input.rank = NoRank
    /\ ret.input.url = <<"u", "]">>
    /\ ret.input.mobile = <<"m">>
    /\ ret.info.url = <<"u", "]">>
    /\ ret.info.mobileUrl = <<"m">>
    /\ ret.info.ranks = <<1>>

\* what a call that listed the first n files of the day returns
CompleteResults(key) ==
    LET files == FolderOf(fs, origin[key].day).files
    IN  {MergeFiles(EmptyIndex, SubSeq(files, 1, n), 1, origin[key].platforms) : n \in 1 .. Len(files)}

\* C27: a thread that lists or parses files does not hold the cache lock, the
\* lock is held inside get and set only, and an entry of the cache is the
\* complete result (titles, names, timestamps) of one caller, never parts of
\* two
C27_ParseOutsideLockWholeResults ==
    /\ \A t \in Threads : frames[t].pc \in {"list", "parse"} => lock # t
    /\ \A t \in Threads : lock = t => frames[t].pc \in {"get_locked", "set_locked"}
    /\ \A key \in DOMAIN cache : cache[key] \in CompleteResults(key)
    /\ (ret.op = "read_done" /\ ~ret.hit) => cache[ret.key] = ret.value

\* two callers missed the same key; the second stored a result that differs
\* from the entry the first had stored
C27_Witness ==
    /\ ret.op = "read_done" /\ ~ret.hit
    /\ ret.overwrote
    /\ ret.replaced # ret.value
    /\ cache[ret.key] = ret.value
====
